---- MODULE Spec2Model ----
(***************************************************************************)
(* Model of the RAG pipeline of the PDF tutor worker: the chunker, the     *)
(* embedder with its retry loop, the Vectorize / D1 / R2 adapters, the     *)
(* prompt augmentation, the content generators and the background          *)
(* orchestration (processPdf) with the delete-pdf handler.                 *)
(*                                                                         *)
(* Strings are sequences of one-character strings, so that concatenation,  *)
(* trimming, prefixes and lengths are computed as the code computes them.  *)
(***************************************************************************)
EXTENDS Integers, Sequences, FiniteSets, TLC

VARIABLES
    runs,         \* processPdf executions: run id -> locals of the async function
    r2,           \* env.pdf_tutor_storage: set of objects, at most one per key
    docs,         \* env.DB table documents: set of rows, at most one per id
    vectorIndex,  \* env.VECTOR_INDEX: set of records, at most one per id
    lastOp,       \* history: the last operation that returned, with its arguments
    fnCall,       \* arguments of the function under study (function-level specifications)
    fnResult      \* what that function returned or threw, NULL before the call

vars == <<runs, r2, docs, vectorIndex, lastOp, fnCall, fnResult>>

\* JavaScript null, and undefined where a string is expected
NULL == [t |-> "null"]
UndefinedText == <<"undefined">>

----------------------------------------------------------------------------
(* Strings *)

Whitespace == {" ", "\n"}

SepBlankLine == <<"\n", "\n">>

RECURSIVE TrimStart(_)
TrimStart(s) ==
    IF s = <<>> THEN s
    ELSE IF Head(s) \in Whitespace THEN TrimStart(Tail(s)) ELSE s

RECURSIVE TrimEnd(_)
TrimEnd(s) ==
    IF s = <<>> THEN s
    ELSE IF s[Len(s)] \in Whitespace THEN TrimEnd(SubSeq(s, 1, Len(s) - 1)) ELSE s

\* String.prototype.trim
Trim(s) == TrimEnd(TrimStart(s))

Min(a, b) == IF a < b THEN a ELSE b
Max(a, b) == IF a > b THEN a ELSE b

\* String.prototype.substring(from, to), 0-based, end exclusive, clamped
Substring(s, from, to) ==
    SubSeq(s, Min(Max(from, 0), Len(s)) + 1, Min(Max(to, 0), Len(s)))

StartsWith(s, p) == Len(s) >= Len(p) /\ SubSeq(s, 1, Len(p)) = p

RECURSIVE JoinWith(_, _)
\* Array.prototype.join(sep)
JoinWith(list, sep) ==
    IF list = <<>> THEN <<>>
    ELSE IF Len(list) = 1 THEN list[1]
    ELSE LET half == Len(list) \div 2   \* joined by halves to keep the recursion shallow
         IN JoinWith(SubSeq(list, 1, half), sep) \o sep
                \o JoinWith(SubSeq(list, half + 1, Len(list)), sep)

DigitChars == <<"0", "1", "2", "3", "4", "5", "6", "7", "8", "9">>

RECURSIVE NumToStr(_)
\* template-literal / Object key rendering of a non-negative integer
NumToStr(n) ==
    IF n < 10 THEN <<DigitChars[n + 1]>>
    ELSE NumToStr(n \div 10) \o <<DigitChars[(n % 10) + 1]>>

DigitValue(c) == CHOOSE d \in 0..9 : DigitChars[d + 1] = c

IsDigit(c) == \E d \in 0..9 : DigitChars[d + 1] = c

RECURSIVE ParseDigits(_, _)
ParseDigits(s, acc) ==
    IF s = <<>> \/ ~IsDigit(Head(s)) THEN acc
    ELSE ParseDigits(Tail(s), acc * 10 + DigitValue(Head(s)))

\* parseInt(str): the leading decimal digits, NaN (modelled as -1) when there are none
ParseInt(s) ==
    IF s = <<>> \/ ~IsDigit(Head(s)) THEN -1 ELSE ParseDigits(s, 0)

RECURSIVE SortedBetween(_, _, _)
\* the elements of S within lo..hi in ascending order, found by halving the range
SortedBetween(S, lo, hi) ==
    IF lo > hi THEN <<>>
    ELSE IF lo = hi THEN (IF lo \in S THEN <<lo>> ELSE <<>>)
    ELSE LET mid == (lo + hi) \div 2
         IN SortedBetween(S, lo, mid) \o SortedBetween(S, mid + 1, hi)

\* the elements of a finite set of integers in ascending order
SortedSeq(S) ==
    IF S = {} THEN <<>>
    ELSE SortedBetween(S, CHOOSE x \in S : \A y \in S : x <= y,
                          CHOOSE x \in S : \A y \in S : x >= y)

\* Object.entries of a Record<number, V>: integer keys ascending, rendered as strings
ObjectEntries(rec) ==
    LET ks == SortedSeq(DOMAIN rec)
    IN [i \in 1..Len(ks) |-> <<NumToStr(ks[i]), rec[ks[i]]>>]

EmptyRecord == [n \in {} |-> NULL]

----------------------------------------------------------------------------
(* Vector store adapter (vector.service) *)

S_full == <<":", "f", "u", "l", "l">>
S_page == <<":", "p", "a", "g", "e", ":">>
S_colon == <<":">>

\* `${filename}:full`
FullVectorId(filename) == filename \o S_full

\* an id built from the vector type alone, without the page number
PageVectorId_NoPageNumber(filename, pageNumber) == filename \o <<":", "p", "a", "g", "e">>

\* `${filename}:page:${pageNumber}`
PageVectorId(filename, pageNumber) == filename \o S_page \o NumToStr(pageNumber)

\* the loop bound of deleteDocumentVectors and the batch size of upsertPageVectors
DELETE_PAGE_RANGE == 100
batchSize == 100

\* VectorizeIndex.upsert: insert each vector, replacing a stored one of the same id
IndexUpsert(index, batch) ==
    {r \in index : \A i \in 1..Len(batch) : batch[i].id # r.id}
        \cup {batch[i] : i \in {j \in 1..Len(batch) :
                                   \A k \in (j + 1)..Len(batch) : batch[k].id # batch[j].id}}

\* VectorizeIndex.deleteByIds
IndexDeleteByIds(index, ids) == {r \in index : r.id \notin ids}

\* VectorizeIndex.query with a metadata filter: the stored records the filter selects
IndexMatches(index, filter) ==
    {r \in index : \A k \in DOMAIN filter : k \in DOMAIN r.metadata /\ r.metadata[k] = filter[k]}

\* upsertFullTextVector: ok = FALSE is the index call throwing (rethrown)
UpsertFullTextVector(index, filename, embedding, ok) ==
    LET metadata == [filename |-> filename, type |-> "full"]
        vec == [id |-> FullVectorId(filename), values |-> embedding, metadata |-> metadata]
    IN IF ok THEN [threw |-> FALSE, index |-> IndexUpsert(index, <<vec>>)]
       ELSE [threw |-> TRUE, index |-> index]

\* the vectors upsertPageVectors builds from Object.entries(pageEmbeddings)
PageVectors(filename, pageEmbeddings) ==
    LET entries == ObjectEntries(pageEmbeddings)
    IN [i \in 1..Len(entries) |->
          LET pageNumber == ParseInt(entries[i][1])
          IN [id |-> PageVectorId(filename, pageNumber),
              values |-> entries[i][2],
              metadata |-> [filename |-> filename, pageNumber |-> pageNumber, type |-> "page"]]]

RECURSIVE UpsertBatches(_, _, _, _)
\* the batch loop: failAt is the batch whose upsert call throws (0: none does)
UpsertBatches(index, vectors, i, failAt) ==
    IF i > Len(vectors) THEN [threw |-> FALSE, index |-> index]
    ELSE IF failAt = (i - 1) \div batchSize + 1 THEN [threw |-> TRUE, index |-> index]
    ELSE UpsertBatches(IndexUpsert(index, SubSeq(vectors, i, Min(i + batchSize - 1, Len(vectors)))),
                       vectors, i + batchSize, failAt)

\* upsertPageVectors
UpsertPageVectors(index, filename, pageEmbeddings, failAt) ==
    UpsertBatches(index, PageVectors(filename, pageEmbeddings), 1, failAt)

\* queryPageTextVector: ok = FALSE is the index query throwing, answered with []
QueryPageTextVector(index, filename, pageNumber, topK, ok) ==
    IF ~ok THEN {}
    ELSE LET m == IndexMatches(index, [filename |-> filename, pageNumber |-> pageNumber,
                                       type |-> "page"])
         IN IF Cardinality(m) <= topK THEN m
            ELSE CHOOSE s \in SUBSET m : Cardinality(s) = topK

\* queryAllPageVectors / queryFullTextVector share the shape; the filter differs
QueryAllPageVectors(index, filename, topK, ok) ==
    IF ~ok THEN {}
    ELSE LET m == IndexMatches(index, [filename |-> filename, type |-> "page"])
         IN IF Cardinality(m) <= topK THEN m
            ELSE CHOOSE s \in SUBSET m : Cardinality(s) = topK

QueryFullTextVector(index, filename, topK, ok) ==
    IF ~ok THEN {}
    ELSE LET m == IndexMatches(index, [filename |-> filename, type |-> "full"])
         IN IF Cardinality(m) <= topK THEN m
            ELSE CHOOSE s \in SUBSET m : Cardinality(s) = topK

\* deleteDocumentVectors: failAt is the deleteByIds call that throws (0: none); the
\* catch block swallows the error, so the function always returns
DeleteDocumentVectors(index, filename, failAt) ==
    LET idsToDelete == {PageVectorId(filename, i) : i \in 1..DELETE_PAGE_RANGE}
        afterFull == IndexDeleteByIds(index, {FullVectorId(filename)})
    IN IF failAt = 1 THEN index
       ELSE IF failAt = 2 THEN afterFull
       ELSE IndexDeleteByIds(afterFull, idsToDelete)

----------------------------------------------------------------------------
(* Embedder (rag.service): generateEmbedding and generatePageEmbeddings *)

MAX_RETRIES == 1
RETRY_DELAY == 1000
DELAY_BETWEEN_REQUESTS == 500
EMBED_TEXT_LIMIT == 1024

Absent == [t |-> "absent"]
NotArray == [t |-> "notarray"]
Flat(vec) == [t |-> "flat", vec |-> vec]
Nested(vec) == [t |-> "nested", vec |-> vec]

\* What one env.AI.run call of the embedding model does: it throws an error with a
\* name and a message, or returns a value. A returned object carries the fields
\* `data` and `embedding` (or lacks them); mentions is the set of marker phrases that
\* occur in a message, or in JSON.stringify of a returned object.
AiThrow(name, hasMessage, mentions) ==
    [kind |-> "throw", error |-> [name |-> name, hasMessage |-> hasMessage, mentions |-> mentions]]
AiObject(data, embedding, mentions) ==
    [kind |-> "object", data |-> data, embedding |-> embedding, mentions |-> mentions]
AiArray(vec) == [kind |-> "array", vec |-> vec]
AiPrimitive == [kind |-> "primitive"]

ErrInvalidResponse == [name |-> "Error", hasMessage |-> TRUE, mentions |-> {}]
ErrEmptyEmbedding == [name |-> "Error", hasMessage |-> TRUE, mentions |-> {}]
\* `Unexpected embedding response format: ${JSON.stringify(response)}`
ErrUnexpectedFormat(response) ==
    [name |-> "Error", hasMessage |-> TRUE, mentions |-> response.mentions]

\* the try block of generateEmbedding after the backend call returned `response`
DecodeEmbedding(response) ==
    LET picked ==
            IF response.kind = "object"
            THEN IF response.data.t \in {"flat", "nested"}
                 THEN [threw |-> FALSE, embedding |-> response.data]
                 ELSE IF response.embedding.t # "absent"
                 THEN [threw |-> FALSE, embedding |-> response.embedding]
                 ELSE [threw |-> TRUE, error |-> ErrUnexpectedFormat(response)]
            ELSE IF response.kind = "array"
            THEN [threw |-> FALSE, embedding |-> Flat(response.vec)]
            ELSE [threw |-> TRUE, error |-> ErrInvalidResponse]
    IN IF picked.threw THEN picked
       ELSE IF picked.embedding.t \notin {"flat", "nested"} \/ picked.embedding.vec = <<>>
       THEN [threw |-> TRUE, error |-> ErrEmptyEmbedding]
       ELSE [threw |-> FALSE, embedding |-> picked.embedding.vec]

\* isRetryable of the catch block
IsRetryable(error) ==
    \/ error.name = "InferenceUpstreamError"
    \/ error.hasMessage /\ "internal error" \in error.mentions
    \/ error.hasMessage /\ "upstream" \in error.mentions

\* a retry bound that is off by one
ShouldRetry_OffByOne(error, retryCount) == IsRetryable(error) /\ retryCount <= MAX_RETRIES

\* the condition under which the catch block retries
ShouldRetry(error, retryCount) == IsRetryable(error) /\ retryCount < MAX_RETRIES

\* the backend's behaviour on its n-th call; a script describes the first calls and
\* the backend keeps answering as in its last entry afterwards
ScriptAt(script, n) == script[Min(n, Len(script))]

RECURSIVE GenerateEmbedding(_, _, _)
\* generateEmbedding(text, env, retryCount): the result, plus the backend calls made
\* and the backoff delays slept, in order
GenerateEmbedding(text, script, retryCount) ==
    LET reply == ScriptAt(script, retryCount + 1)
        attempt == IF reply.kind = "throw" THEN [threw |-> TRUE, error |-> reply.error]
                   ELSE DecodeEmbedding(reply)
    IN IF ~attempt.threw
       THEN [threw |-> FALSE, embedding |-> attempt.embedding,
             dimensions |-> Len(attempt.embedding), attempts |-> 1, delays |-> <<>>]
       ELSE IF ShouldRetry(attempt.error, retryCount)
       THEN LET rest == GenerateEmbedding(text, script, retryCount + 1)
            IN [rest EXCEPT !.attempts = @ + 1,
                            !.delays = <<RETRY_DELAY * (retryCount + 1)>> \o @]
       ELSE [threw |-> TRUE, error |-> attempt.error, attempts |-> 1, delays |-> <<>>]

RECURSIVE EmbedEntries_AbortOnFailure(_, _, _, _)
\* the loop without its try / catch: the first failing page ends it
EmbedEntries_AbortOnFailure(entries, i, scripts, acc) ==
    IF i > Len(entries) THEN acc
    ELSE LET pageNum == ParseInt(entries[i][1])
             pageText == Substring(JoinWith(entries[i][2], <<" ">>), 0, EMBED_TEXT_LIMIT)
             result == GenerateEmbedding(pageText, scripts[pageNum], 0)
             call == [ev |-> "embed", page |-> pageNum, ok |-> ~result.threw,
                      attempts |-> result.attempts]
         IN IF ~result.threw
            THEN EmbedEntries_AbortOnFailure(entries, i + 1, scripts,
                    [acc EXCEPT !.pageEmbeddings =
                                    [n \in DOMAIN @ \cup {pageNum} |->
                                        IF n = pageNum THEN result.embedding ELSE @[n]],
                                !.trace = @ \o <<call, [ev |-> "delay",
                                                        ms |-> DELAY_BETWEEN_REQUESTS]>>])
            ELSE [acc EXCEPT !.threw = TRUE, !.trace = @ \o <<call>>]

RECURSIVE EmbedEntries(_, _, _, _)
\* the loop of generatePageEmbeddings over Object.entries(pageChunks)
EmbedEntries(entries, i, scripts, acc) ==
    IF i > Len(entries) THEN acc
    ELSE LET pageNum == ParseInt(entries[i][1])
             pageText == Substring(JoinWith(entries[i][2], <<" ">>), 0, EMBED_TEXT_LIMIT)
             result == GenerateEmbedding(pageText, scripts[pageNum], 0)
             call == [ev |-> "embed", page |-> pageNum, ok |-> ~result.threw,
                      attempts |-> result.attempts]
         IN IF ~result.threw
            THEN EmbedEntries(entries, i + 1, scripts,
                    [acc EXCEPT !.pageEmbeddings =
                                    [n \in DOMAIN @ \cup {pageNum} |->
                                        IF n = pageNum THEN result.embedding ELSE @[n]],
                                !.trace = @ \o <<call, [ev |-> "delay",
                                                        ms |-> DELAY_BETWEEN_REQUESTS]>>])
            ELSE EmbedEntries(entries, i + 1, scripts, [acc EXCEPT !.trace = @ \o <<call>>])

\* generatePageEmbeddings(pageChunks, env); scripts gives the backend's behaviour
\* during each page's generateEmbedding call
GeneratePageEmbeddings(pageChunks, scripts) ==
    EmbedEntries(ObjectEntries(pageChunks), 1, scripts,
                 [threw |-> FALSE, pageEmbeddings |-> EmptyRecord, trace |-> <<>>])

----------------------------------------------------------------------------
(* Chunker and augmentation (rag.service) *)

\* RAG_CONFIG. The window sizes are scaled down with the page texts of the model
\* (the source has 400, 50 and 1500); their order is the source's:
\* CHUNK_OVERLAP < CHUNK_SIZE < MAX_CONTEXT_LENGTH.
CHUNK_SIZE == 4
CHUNK_OVERLAP == 1
MAX_CONTEXT_LENGTH == 6

\* the configuration object chunkText reads its two parameters from
RAG_CONFIG == [CHUNK_SIZE |-> CHUNK_SIZE, CHUNK_OVERLAP |-> CHUNK_OVERLAP]

\* a chunkText that trims a short text before returning it
ChunkEntry_Trimmed(text, config) ==
    IF text = <<>> \/ Len(text) <= config.CHUNK_SIZE
    THEN [pc |-> "returned", startIndex |-> 0, chunks |-> <<Trim(text)>>]
    ELSE [pc |-> "loop", startIndex |-> 0, chunks |-> <<>>]

\* chunkText up to the while loop: a short or empty text is returned as it is
ChunkEntry(text, config) ==
    IF text = <<>> \/ Len(text) <= config.CHUNK_SIZE
    THEN [pc |-> "returned", startIndex |-> 0, chunks |-> <<text>>]
    ELSE [pc |-> "loop", startIndex |-> 0, chunks |-> <<>>]

\* a window that ends one character early
ChunkWindow_Short(text, startIndex, config) ==
    Substring(text, startIndex, Min(startIndex + config.CHUNK_SIZE - 1, Len(text)))

\* text.substring(startIndex, Math.min(startIndex + CHUNK_SIZE, text.length))
ChunkWindow(text, startIndex, config) ==
    Substring(text, startIndex, Min(startIndex + config.CHUNK_SIZE, Len(text)))

\* a loop that does not move its window
ChunkAdvance_Stuck(startIndex, config) == startIndex

\* startIndex += CHUNK_SIZE - CHUNK_OVERLAP
ChunkAdvance(startIndex, config) == startIndex + (config.CHUNK_SIZE - config.CHUNK_OVERLAP)

\* one iteration of the while loop of chunkText; exit is the break at its end
ChunkLoopBody(text, startIndex, chunks, config) ==
    LET chunk == Trim(ChunkWindow(text, startIndex, config))
        pushed == IF Len(chunk) > 0 THEN Append(chunks, chunk) ELSE chunks
        next == ChunkAdvance(startIndex, config)
    IN [chunks |-> pushed, startIndex |-> next, exit |-> next >= Len(text)]

RECURSIVE ChunkWindows(_, _, _)
\* the while loop of chunkText from startIndex on
ChunkWindows(text, startIndex, chunks) ==
    IF ~(startIndex < Len(text)) THEN chunks
    ELSE LET iteration == ChunkLoopBody(text, startIndex, chunks, RAG_CONFIG)
         IN IF iteration.exit THEN iteration.chunks
            ELSE ChunkWindows(text, iteration.startIndex, iteration.chunks)

\* chunkText(text, pageNumber)
ChunkText(text, pageNumber) ==
    LET entry == ChunkEntry(text, RAG_CONFIG)
    IN IF entry.pc = "returned" THEN entry.chunks
       ELSE ChunkWindows(text, entry.startIndex, entry.chunks)

RECURSIVE SumLens(_)
SumLens(lists) == IF lists = <<>> THEN 0 ELSE Len(Head(lists)) + SumLens(Tail(lists))

\* a processDocument that counts one chunk per page
ProcessDocument_OneChunkPerPage(filename, pages) ==
    LET pageChunks == [pageNum \in 1..Len(pages) |-> ChunkText(pages[pageNum], pageNum)]
    IN [filename |-> filename,
        fullText |-> JoinWith(pages, SepBlankLine),
        pageChunks |-> pageChunks,
        totalPages |-> Len(pages),
        totalChunks |-> Len(pages)]

\* processDocument(filename, pages)
ProcessDocument(filename, pages) ==
    LET pageChunks == [pageNum \in 1..Len(pages) |-> ChunkText(pages[pageNum], pageNum)]
    IN [filename |-> filename,
        fullText |-> JoinWith(pages, SepBlankLine),
        pageChunks |-> pageChunks,
        totalPages |-> Len(pages),
        totalChunks |-> SumLens(pageChunks)]

\* the fixed text of the augmented prompt; a literal of the code is kept as one token
PromptPreamble == <<"Context information from the document:", "\n">>
PromptBridge == <<"\n", "\n", "Based on the context above, ">>

RECURSIVE AugmentLoop_SkipOversized(_, _, _, _)
\* a loop that passes over a chunk that does not fit and goes on with the next one
AugmentLoop_SkipOversized(relevantTexts, i, relevantText, sources) ==
    IF i > Len(relevantTexts) THEN [relevantText |-> relevantText, sources |-> sources]
    ELSE LET item == relevantTexts[i]
         IN IF Len(relevantText) + Len(item.text) > MAX_CONTEXT_LENGTH
            THEN AugmentLoop_SkipOversized(relevantTexts, i + 1, relevantText, sources)
            ELSE AugmentLoop_SkipOversized(relevantTexts, i + 1,
                             relevantText \o item.text \o SepBlankLine,
                             Append(sources, [pageNumber |-> item.pageNumber,
                                              score |-> item.score]))

RECURSIVE AugmentLoop(_, _, _, _)
\* the for loop of createAugmentedPrompt
AugmentLoop(relevantTexts, i, relevantText, sources) ==
    IF i > Len(relevantTexts) THEN [relevantText |-> relevantText, sources |-> sources]
    ELSE LET item == relevantTexts[i]
         IN IF Len(relevantText) + Len(item.text) > MAX_CONTEXT_LENGTH
            THEN [relevantText |-> relevantText, sources |-> sources]
            ELSE AugmentLoop(relevantTexts, i + 1,
                             relevantText \o item.text \o SepBlankLine,
                             Append(sources, [pageNumber |-> item.pageNumber,
                                              score |-> item.score]))

\* a createAugmentedPrompt that returns the accumulated text without trimming it
CreateAugmentedPrompt_Untrimmed(originalPrompt, relevantTexts) ==
    LET acc == AugmentLoop(relevantTexts, 1, <<>>, <<>>)
    IN [originalPrompt |-> originalPrompt,
        relevantText |-> acc.relevantText,
        augmentedPrompt |-> PromptPreamble \o acc.relevantText
                               \o PromptBridge \o originalPrompt,
        sources |-> acc.sources]

\* createAugmentedPrompt(originalPrompt, relevantTexts)
CreateAugmentedPrompt(originalPrompt, relevantTexts) ==
    LET acc == AugmentLoop(relevantTexts, 1, <<>>, <<>>)
    IN [originalPrompt |-> originalPrompt,
        relevantText |-> Trim(acc.relevantText),
        augmentedPrompt |-> PromptPreamble \o Trim(acc.relevantText)
                               \o PromptBridge \o originalPrompt,
        sources |-> acc.sources]

----------------------------------------------------------------------------
(* Document store adapter (vector.service, table documents of env.DB) *)

\* JSON.stringify of a Record<number, V>: the entries, keys rendered as strings
StringifyRecord(rec) == ObjectEntries(rec)

\* JSON.parse of such a text, read back through numeric indexing
ParseRecord(entries) ==
    [n \in {ParseInt(entries[i][1]) : i \in 1..Len(entries)} |->
        LET i == CHOOSE j \in 1..Len(entries) : ParseInt(entries[j][1]) = n
        IN entries[i][2]]

\* a storeDocument that inserts a new row and keeps the old one
StoreDocument_InsertOnly(table, chunkedDoc, ok) ==
    IF ~ok THEN [threw |-> TRUE, table |-> table]
    ELSE [threw |-> FALSE,
          table |-> table \cup {[id |-> chunkedDoc.filename,
                                 fullText |-> chunkedDoc.fullText,
                                 pageTexts |-> StringifyRecord(chunkedDoc.pageChunks)]}]

\* storeDocument: INSERT OR REPLACE by id; ok = FALSE is the statement failing (rethrown)
StoreDocument(table, chunkedDoc, ok) ==
    IF ~ok THEN [threw |-> TRUE, table |-> table]
    ELSE [threw |-> FALSE,
          table |-> {row \in table : row.id # chunkedDoc.filename}
                       \cup {[id |-> chunkedDoc.filename,
                              fullText |-> chunkedDoc.fullText,
                              pageTexts |-> StringifyRecord(chunkedDoc.pageChunks)]}]

\* getDocument: null when there is no row or when the statement fails
GetDocument(table, filename, ok) ==
    IF ~ok \/ ~(\E row \in table : row.id = filename) THEN NULL
    ELSE LET result == CHOOSE row \in table : row.id = filename
             pageChunks == ParseRecord(result.pageTexts)
         IN [filename |-> result.id,
             fullText |-> result.fullText,
             pageChunks |-> pageChunks,
             totalPages |-> Cardinality(DOMAIN pageChunks),
             totalChunks |-> SumLens([i \in 1..Len(result.pageTexts) |->
                                         result.pageTexts[i][2]])]

\* deleteDocument: DELETE by id; ok = FALSE is the statement failing (rethrown)
DeleteDocument(table, filename, ok) ==
    IF ~ok THEN [threw |-> TRUE, table |-> table]
    ELSE [threw |-> FALSE, table |-> {row \in table : row.id # filename}]

----------------------------------------------------------------------------
(* R2 storage (storage.service, storage.utils) *)

PDF_PREFIX == <<"pdfs/">>
METADATA_PREFIX == <<"metadata/">>
LLM_TRANSCRIPT_PREFIX == <<"llm_transcripts/">>
LLM_MCQ_PREFIX == <<"llm_mcqs/">>
DotJson == <<".json">>

BuildPdfKey(filename) == PDF_PREFIX \o filename
BuildMetadataKey(filename) == METADATA_PREFIX \o filename \o DotJson
BuildTranscriptKey(filename) == LLM_TRANSCRIPT_PREFIX \o filename \o DotJson
BuildMcqKey(filename) == LLM_MCQ_PREFIX \o filename \o DotJson

\* R2Bucket.put / get / delete
BucketPut(bucket, key, body) == {o \in bucket : o.key # key} \cup {[key |-> key, body |-> body]}
BucketHas(bucket, key) == \E o \in bucket : o.key = key
BucketGet(bucket, key) == (CHOOSE o \in bucket : o.key = key).body
BucketDelete(bucket, key) == {o \in bucket : o.key # key}

\* JSON.stringify of a page-keyed map: a key whose value is undefined is left out
StringifyPageMap(map) ==
    StringifyRecord([n \in {k \in DOMAIN map : map[k].t # "undefined"} |-> map[n]])

\* a write that keeps the blob that is already stored
StoreTranscript_KeepExisting(bucket, filename, transcriptData, ok) ==
    IF ~ok THEN [threw |-> TRUE, bucket |-> bucket]
    ELSE [threw |-> FALSE,
          bucket |-> IF BucketHas(bucket, BuildTranscriptKey(filename)) THEN bucket
                     ELSE BucketPut(bucket, BuildTranscriptKey(filename),
                                    StringifyPageMap(transcriptData))]

\* storeTranscript / storeMcqs: ok = FALSE is the put failing (it propagates)
StoreTranscript(bucket, filename, transcriptData, ok) ==
    IF ~ok THEN [threw |-> TRUE, bucket |-> bucket]
    ELSE [threw |-> FALSE,
          bucket |-> BucketPut(bucket, BuildTranscriptKey(filename),
                               StringifyPageMap(transcriptData))]

StoreMcqs(bucket, filename, mcqData, ok) ==
    IF ~ok THEN [threw |-> TRUE, bucket |-> bucket]
    ELSE [threw |-> FALSE,
          bucket |-> BucketPut(bucket, BuildMcqKey(filename), StringifyPageMap(mcqData))]

\* a JavaScript value used as a condition
Truthy(v) ==
    /\ v.t \notin {"null", "undefined"}
    /\ v.t = "string" => v.chars # <<>>

\* getTranscript(filename, pageNumber): transcriptData[pageNumber] || null
GetTranscript(bucket, filename, pageNumber) ==
    IF ~BucketHas(bucket, BuildTranscriptKey(filename)) THEN NULL
    ELSE LET transcriptData == ParseRecord(BucketGet(bucket, BuildTranscriptKey(filename)))
         IN IF pageNumber \in DOMAIN transcriptData /\ Truthy(transcriptData[pageNumber])
            THEN transcriptData[pageNumber] ELSE NULL

\* getMcqs(filename, pageNumber): mcqData[pageNumber.toString()] || null
GetMcqs(bucket, filename, pageNumber) ==
    IF ~BucketHas(bucket, BuildMcqKey(filename)) THEN NULL
    ELSE LET mcqData == ParseRecord(BucketGet(bucket, BuildMcqKey(filename)))
         IN IF pageNumber \in DOMAIN mcqData /\ Truthy(mcqData[pageNumber])
            THEN mcqData[pageNumber] ELSE NULL

\* deleteAllFileData: the PDF, its metadata, the transcript blob and the MCQ blob are
\* deleted in this order; failAt is the delete call that throws (0: none does)
DeleteAllFileData(bucket, filename, failAt) ==
    LET keys == <<BuildPdfKey(filename), BuildMetadataKey(filename),
                  BuildTranscriptKey(filename), BuildMcqKey(filename)>>
        deleted == {keys[i] : i \in {j \in 1..4 : failAt = 0 \/ j < failAt}}
    IN [threw |-> failAt # 0, bucket |-> {o \in bucket : o.key \notin deleted}]

RECURSIVE Includes(_, _)
\* String.prototype.includes
Includes(s, sub) ==
    IF Len(s) < Len(sub) THEN FALSE
    ELSE StartsWith(s, sub) \/ Includes(Tail(s), sub)

\* validateFilename of storage.utils
ValidateFilename(filename) ==
    /\ filename # <<>>
    /\ ~Includes(filename, <<".", ".">>)
    /\ ~Includes(filename, <<"/">>)
    /\ ~Includes(filename, <<"\\">>)

----------------------------------------------------------------------------
(* Content generators (llm.service) *)

\* LLM_CONFIG. MIN_TEXT_LENGTH is scaled down with the page texts (the source has 20).
MAX_INPUT_TEXT_LENGTH == 1000
MIN_TEXT_LENGTH == 2
TRANSCRIPT_INPUT_LIMIT == 100
QUERY_TEXT_LIMIT == 1000
QUERY_TOP_K == 2

\* A JavaScript string: its characters, and what match(/\[[\s\S]*\]/) followed by
\* JSON.parse makes of it (no match, a SyntaxError, or the parsed array).
NoMatch == [t |-> "nomatch"]
Malformed == [t |-> "malformed"]
Parsed(items) == [t |-> "parsed", items |-> items]
Str(chars, json) == [t |-> "string", chars |-> chars, json |-> json]
JsUndefined == [t |-> "undefined"]
JsOther == [t |-> "other"]
JsArray(items) == [t |-> "array", items |-> items]

\* an element of a parsed array: an object with some fields, or a primitive
ElemObject(fields) == [t |-> "object", fields |-> fields]
ElemPrimitive == [t |-> "primitive"]

\* What one env.AI.run call of the chat model does: it throws, or returns a raw
\* Response (an object without a `response` property), a primitive, or an object
\* whose `response` property holds some value.
ChatThrow == [kind |-> "throw"]
ChatRaw == [kind |-> "raw"]
ChatPrimitive == [kind |-> "primitive"]
ChatObject(v) == [kind |-> "object", response |-> v]

\* handleChatRequest: a backend error becomes a 500 Response object
HandleChatRequest(reply) == IF reply.kind = "throw" THEN ChatRaw ELSE reply

\* response && typeof response === 'object' && 'response' in response
HasResponseField(response) == response.kind = "object"

TranscriptFallbackNoResponse(pageNumber) ==
    Str(<<"Summary for page ">> \o NumToStr(pageNumber)
          \o <<": Educational content about the topics discussed in this section.">>, NoMatch)

TranscriptFallbackError(pageNumber) ==
    Str(<<"Summary for page ">> \o NumToStr(pageNumber)
          \o <<": Content analysis in progress. Please refresh to see updates.">>, NoMatch)

\* generateTranscript(pageText, pageNumber, env)
GenerateTranscript(pageText, pageNumber, reply) ==
    LET body ==
            IF pageText = UndefinedText
            THEN [threw |-> TRUE, chatCalls |-> 0]
            ELSE LET truncatedText == Trim(Substring(pageText, 0, TRANSCRIPT_INPUT_LIMIT))
                     response == HandleChatRequest(reply)
                 IN IF HasResponseField(response)
                    THEN [threw |-> FALSE, value |-> response.response, chatCalls |-> 1]
                    ELSE [threw |-> FALSE, value |-> TranscriptFallbackNoResponse(pageNumber),
                          chatCalls |-> 1]
    IN IF body.threw
       THEN [threw |-> FALSE, value |-> TranscriptFallbackError(pageNumber),
             chatCalls |-> body.chatCalls]
       ELSE body

\* createFallbackMcqs(pageNumber)
CreateFallbackMcqs(pageNumber) ==
    JsArray(<<
        [page |-> pageNumber,
         question |-> <<"What is the main topic discussed on page ">>
                         \o NumToStr(pageNumber) \o <<"?">>,
         options |-> <<"Educational content", "Technical concepts",
                       "Research findings", "All of the above">>,
         correct |-> 3,
         explanation |-> <<"This page covers various educational and technical topics.">>],
        [page |-> pageNumber,
         question |-> <<"Which statement best describes the content on page ">>
                         \o NumToStr(pageNumber) \o <<"?">>,
         options |-> <<"It provides theoretical knowledge", "It contains practical examples",
                       "It discusses research methodologies",
                       "Content requires detailed analysis">>,
         correct |-> 3,
         explanation |-> <<"The content requires proper PDF parsing for accurate assessment.">>]
    >>)

\* questions.map((q, index) => ({ ...q, page: pageNumber, id: index }))
MapQuestions(items, pageNumber) ==
    [i \in 1..Len(items) |->
        LET base == IF items[i].t = "object" THEN items[i].fields ELSE EmptyRecord
        IN [k \in DOMAIN base \cup {"page", "id"} |->
               IF k = "page" THEN pageNumber ELSE IF k = "id" THEN i - 1 ELSE base[k]]]

\* the inner try block of generateMcqs / generateMcqsWithRAG: the parsed questions, or
\* "none" when there is no match, the parse throws, or the array is empty
ParseMcqResponse(response, pageNumber) ==
    LET hasText == HasResponseField(response)
        responseText == IF hasText THEN response.response ELSE Str(<<>>, NoMatch)
    IN IF responseText.t # "string" THEN [found |-> FALSE]
       ELSE IF responseText.json.t # "parsed" THEN [found |-> FALSE]
       ELSE IF Len(responseText.json.items) > 0
       THEN [found |-> TRUE, mcqs |-> JsArray(MapQuestions(responseText.json.items, pageNumber))]
       ELSE [found |-> FALSE]

\* generateMcqs(pageText, pageNumber, env)
GenerateMcqs(pageText, pageNumber, reply) ==
    LET body ==
            IF pageText = UndefinedText
            THEN [threw |-> TRUE, chatCalls |-> 0]
            ELSE LET truncatedText == Trim(Substring(pageText, 0, MAX_INPUT_TEXT_LENGTH))
                 IN IF Len(truncatedText) < MIN_TEXT_LENGTH
                    THEN [threw |-> FALSE, value |-> CreateFallbackMcqs(pageNumber),
                          chatCalls |-> 0]
                    ELSE LET parsed == ParseMcqResponse(HandleChatRequest(reply), pageNumber)
                         IN [threw |-> FALSE,
                             value |-> IF parsed.found THEN parsed.mcqs
                                       ELSE CreateFallbackMcqs(pageNumber),
                             chatCalls |-> 1]
    IN IF body.threw
       THEN [threw |-> FALSE, value |-> CreateFallbackMcqs(pageNumber),
             chatCalls |-> body.chatCalls]
       ELSE body

TranscriptGoal == <<"Summarize this educational text in 2 sentences">>
TranscriptQueryPrefix == <<"Summarize this educational text in 2 sentences:", "\n", "\n">>
McqGoal == <<"Create 2 MCQs as JSON:", "\n", "[{...}]">>
McqQueryPrefix == <<"Create quiz questions about:", "\n", "\n">>

\* The retrieval steps the two RAG generators share, up to the augmented prompt.
\* env: embScript (the embedding backend during this call), queryOk and dbOk (whether
\* the index query and the D1 statement succeed), index and table (the stores' content).
Retrieve(pageText, pageNumber, filename, env, queryPrefix, goal) ==
    IF pageText = UndefinedText
    THEN [threw |-> TRUE, embedCalls |-> 0, embedAttempts |-> 0, queries |-> 0]
    ELSE LET queryPrompt == queryPrefix \o Substring(pageText, 0, QUERY_TEXT_LIMIT)
             queryEmbedding == GenerateEmbedding(queryPrompt, env.embScript, 0)
         IN IF queryEmbedding.threw
            THEN [threw |-> TRUE, embedCalls |-> 1,
                  embedAttempts |-> queryEmbedding.attempts, queries |-> 0]
            ELSE LET pageResults == QueryPageTextVector(env.index, filename, pageNumber,
                                                        QUERY_TOP_K, env.queryOk)
                     document == GetDocument(env.table, filename, env.dbOk)
                     relevantTexts ==
                         IF document # NULL /\ pageNumber \in DOMAIN document.pageChunks
                         THEN <<[text |-> JoinWith(document.pageChunks[pageNumber], <<" ">>),
                                 pageNumber |-> pageNumber, score |-> 1]>>
                         ELSE <<>>
                 IN [threw |-> FALSE, embedCalls |-> 1,
                     embedAttempts |-> queryEmbedding.attempts,
                     queries |-> 1, pageResults |-> pageResults,
                     relevantTexts |-> relevantTexts,
                     augmentedData |-> CreateAugmentedPrompt(goal, relevantTexts)]

\* generateTranscriptWithRAG(pageText, pageNumber, filename, env); replies are the chat
\* backend's answers to the augmented call and to the call of the non-RAG fallback
GenerateTranscriptWithRAG(pageText, pageNumber, filename, env, replies) ==
    LET retrieved == Retrieve(pageText, pageNumber, filename, env,
                              TranscriptQueryPrefix, TranscriptGoal)
        fallback == GenerateTranscript(pageText, pageNumber, replies[2])
    IN IF retrieved.threw
       THEN [threw |-> fallback.threw, value |-> fallback.value,
             chatCalls |-> fallback.chatCalls, retrieval |-> retrieved, augmented |-> FALSE]
       ELSE LET response == HandleChatRequest(replies[1])
            IN IF HasResponseField(response)
               THEN [threw |-> FALSE, value |-> response.response, chatCalls |-> 1,
                     retrieval |-> retrieved, augmented |-> TRUE]
               ELSE [threw |-> fallback.threw, value |-> fallback.value,
                     chatCalls |-> fallback.chatCalls + 1,
                     retrieval |-> retrieved, augmented |-> FALSE]

\* generateMcqsWithRAG(pageText, pageNumber, filename, env)
GenerateMcqsWithRAG(pageText, pageNumber, filename, env, replies) ==
    LET retrieved == Retrieve(pageText, pageNumber, filename, env, McqQueryPrefix, McqGoal)
        fallback == GenerateMcqs(pageText, pageNumber, replies[2])
    IN IF retrieved.threw
       THEN [threw |-> fallback.threw, value |-> fallback.value,
             chatCalls |-> fallback.chatCalls, retrieval |-> retrieved, augmented |-> FALSE]
       ELSE LET parsed == ParseMcqResponse(HandleChatRequest(replies[1]), pageNumber)
            IN IF parsed.found
               THEN [threw |-> FALSE, value |-> parsed.mcqs, chatCalls |-> 1,
                     retrieval |-> retrieved, augmented |-> TRUE]
               ELSE [threw |-> fallback.threw, value |-> fallback.value,
                     chatCalls |-> fallback.chatCalls + 1,
                     retrieval |-> retrieved, augmented |-> FALSE]

----------------------------------------------------------------------------
(* Page-text extraction (pdf.service) *)

ExtractionFallbackPage == <<"Unable", " ", "to parse PDF content.">>

\* extractPdfText(pdfBuffer); outcome is what unpdf's extractText does with the buffer:
\* it throws, or returns the list of page texts
ExtractPdfText(outcome) ==
    IF outcome.kind = "throw"
    THEN [numPages |-> -1, pages |-> <<ExtractionFallbackPage>>]
    ELSE LET trimmedPages == SubSeq(outcome.text, 1, Min(1, Len(outcome.text)))
             totalPages == Len(trimmedPages)
         IN IF trimmedPages = <<>>     \* trimmedPages[0].length throws a TypeError
            THEN [numPages |-> -1, pages |-> <<ExtractionFallbackPage>>]
            ELSE [numPages |-> totalPages, pages |-> outcome.text]

----------------------------------------------------------------------------
(* Bounds and input sets of the orchestration model *)

MaxRuns == 2
MaxPages == 2

RunIds == 1..MaxRuns

\* document ids of the orchestration model
PipeFilenames == {<<"a">>}

\* page texts: one shorter than MIN_TEXT_LENGTH, one longer than CHUNK_SIZE
ShortText == <<"x">>
LongText == <<"a", "b", " ", "c", "d", "e">>
PipePageTexts == {LongText}

RECURSIVE SeqsUpTo(_, _)
\* the sequences over S of length at most n
SeqsUpTo(S, n) ==
    IF n = 0 THEN {<<>>}
    ELSE LET shorter == SeqsUpTo(S, n - 1)
         IN shorter \cup {Append(q, x) : q \in {t \in shorter : Len(t) = n - 1}, x \in S}

\* what unpdf may do with an uploaded buffer
ExtractionOutcomes ==
    {[kind |-> "throw"]} \cup {[kind |-> "pages", text |-> t] : t \in SeqsUpTo(PipePageTexts, MaxPages)}

Vec1 == <<1, 2>>
Vec2 == <<3, 4>>

\* the embedding backend during one generateEmbedding call of a run: up, or down
ScriptUp == <<AiObject(Nested(Vec1), Absent, {})>>
ScriptDown == <<AiThrow("Error", TRUE, {})>>
PipeScripts == {ScriptUp, ScriptDown}

OneQuestion ==
    ElemObject([question |-> <<"Q?">>, options |-> <<"A", "B", "C", "D">>, correct |-> 0])

\* the chat backend during one call of a run: down, answering in prose, or answering
\* with a JSON array
PipeChatReplies ==
    {ChatThrow,
     ChatObject(Str(<<"Some summary.">>, NoMatch)),
     ChatObject(Str(<<"[", "{...}", "]">>, Parsed(<<OneQuestion>>)))}

NoOp == [op |-> "none", filename |-> <<>>, status |-> 0]

IdleRun ==
    [pc |-> "idle", filename |-> <<>>, numPages |-> 0, pages |-> <<>>,
     chunkedDoc |-> NULL, pageEmbeddings |-> EmptyRecord, pageNum |-> 0,
     allTranscripts |-> EmptyRecord, allMcqs |-> EmptyRecord]

----------------------------------------------------------------------------
(* Orchestration (pdf.controller): handleUpload, processPdf, handleDeletePdf *)

StepOp(r) == [op |-> "processPdf", filename |-> runs[r].filename, status |-> 0]

\* a run that has returned: its locals are gone
Returned(r, pc) == [runs EXCEPT ![r] = [IdleRun EXCEPT !.pc = pc, !.filename = runs[r].filename]]

\* the catch block of processPdf: the error is logged and the run ends
Fail(r) == Returned(r, "failed")

\* handleUpload: the PDF and its metadata are stored, processPdf is handed to
\* ctx.waitUntil and the response is sent; a failing put answers 500 and starts nothing.
\* concurrent = FALSE is the client that uploads again only after the previous run ended.
HandleUpload(r, filename, putOk, concurrent) ==
    /\ runs[r].pc = "idle"
    /\ \A q \in RunIds : q < r => runs[q].pc # "idle"
    /\ concurrent \/ \A q \in RunIds : runs[q].pc \in {"idle", "rejected", "done", "failed"}
    /\ IF putOk
       THEN /\ r2' = BucketPut(BucketPut(r2, BuildPdfKey(filename), <<"pdf">>),
                               BuildMetadataKey(filename), <<"metadata">>)
            /\ runs' = [runs EXCEPT ![r] = [IdleRun EXCEPT !.pc = "extracting",
                                                           !.filename = filename]]
            /\ lastOp' = [op |-> "handleUpload", filename |-> filename, status |-> 200]
       ELSE /\ UNCHANGED <<r2>>
            /\ runs' = [runs EXCEPT ![r].pc = "rejected"]
            /\ lastOp' = [op |-> "handleUpload", filename |-> filename, status |-> 500]
    /\ UNCHANGED <<docs, vectorIndex, fnCall, fnResult>>

\* processPdf, extracting: await pdfService.extractPdfText(fileBuffer)
Extract(r, outcome) ==
    /\ runs[r].pc = "extracting"
    /\ LET extracted == ExtractPdfText(outcome)
       IN runs' = [runs EXCEPT ![r].pc = "chunking",
                               ![r].pages = extracted.pages,
                               ![r].numPages = extracted.numPages]
    /\ lastOp' = StepOp(r)
    /\ UNCHANGED <<r2, docs, vectorIndex, fnCall, fnResult>>

\* processPdf, chunking: ragService.processDocument(filename, pages)
Chunk(r) ==
    /\ runs[r].pc = "chunking"
    /\ runs' = [runs EXCEPT ![r].pc = "embedding",
                            ![r].chunkedDoc = ProcessDocument(runs[r].filename, runs[r].pages)]
    /\ lastOp' = StepOp(r)
    /\ UNCHANGED <<r2, docs, vectorIndex, fnCall, fnResult>>

\* processPdf, embedding: await ragService.generatePageEmbeddings(pageChunks, env)
Embed(r, scripts) ==
    /\ runs[r].pc = "embedding"
    /\ LET result == GeneratePageEmbeddings(runs[r].chunkedDoc.pageChunks, scripts)
       IN runs' = IF result.threw THEN Fail(r)
                  ELSE [runs EXCEPT ![r].pc = "storingDocument",
                                    ![r].pageEmbeddings = result.pageEmbeddings]
    /\ lastOp' = StepOp(r)
    /\ UNCHANGED <<r2, docs, vectorIndex, fnCall, fnResult>>

\* processPdf, storing: await vectorService.storeDocument(chunkedDoc, env)
StoreDocumentStep(r, ok) ==
    /\ runs[r].pc = "storingDocument"
    /\ LET result == StoreDocument(docs, runs[r].chunkedDoc, ok)
       IN /\ docs' = result.table
          /\ runs' = IF result.threw THEN Fail(r)
                     ELSE [runs EXCEPT ![r].pc = "storingVectors"]
    /\ lastOp' = StepOp(r)
    /\ UNCHANGED <<r2, vectorIndex, fnCall, fnResult>>

\* a storing step that takes the document row back when the vector upsert fails
UpsertVectorsStep_RollsBack(r, failAt) ==
    /\ runs[r].pc = "storingVectors"
    /\ LET result == UpsertPageVectors(vectorIndex, runs[r].filename,
                                       runs[r].pageEmbeddings, failAt)
       IN /\ vectorIndex' = result.index
          /\ docs' = IF result.threw THEN DeleteDocument(docs, runs[r].filename, TRUE).table
                     ELSE docs
          /\ runs' = IF result.threw THEN Fail(r)
                     ELSE [runs EXCEPT ![r].pc = "generating", ![r].pageNum = 1]
    /\ lastOp' = StepOp(r)
    /\ UNCHANGED <<r2, fnCall, fnResult>>

\* processPdf, storing: await vectorService.upsertPageVectors(filename, pageEmbeddings, env)
UpsertVectorsStep(r, failAt) ==
    /\ runs[r].pc = "storingVectors"
    /\ LET result == UpsertPageVectors(vectorIndex, runs[r].filename,
                                       runs[r].pageEmbeddings, failAt)
       IN /\ vectorIndex' = result.index
          /\ runs' = IF result.threw THEN Fail(r)
                     ELSE [runs EXCEPT ![r].pc = "generating", ![r].pageNum = 1]
    /\ lastOp' = StepOp(r)
    /\ UNCHANGED <<r2, docs, fnCall, fnResult>>

\* pages[pageNum - 1]
PageTextOf(run) ==
    IF run.pageNum \in 1..Len(run.pages) THEN run.pages[run.pageNum] ELSE UndefinedText

MapPut(map, key, value) ==
    [k \in DOMAIN map \cup {key} |-> IF k = key THEN value ELSE map[k]]

\* a loop that writes the transcript blob after every page
TranscriptStep_WritesEachPage(r, env, replies) ==
    /\ runs[r].pc = "generating"
    /\ runs[r].pageNum <= runs[r].numPages
    /\ LET result == GenerateTranscriptWithRAG(PageTextOf(runs[r]), runs[r].pageNum,
                                               runs[r].filename, env, replies)
           transcripts == MapPut(runs[r].allTranscripts, runs[r].pageNum, result.value)
       IN /\ runs' = IF result.threw THEN Fail(r)
                     ELSE [runs EXCEPT ![r].pc = "generatingMcqs",
                                       ![r].allTranscripts = transcripts]
          /\ r2' = IF result.threw THEN r2
                   ELSE StoreTranscript(r2, runs[r].filename, transcripts, TRUE).bucket
    /\ lastOp' = StepOp(r)
    /\ UNCHANGED <<docs, vectorIndex, fnCall, fnResult>>

\* processPdf, generating: the first half of a loop iteration,
\* await llmService.generateTranscriptWithRAG(pageText, pageNum, filename, env)
TranscriptStep(r, env, replies) ==
    /\ runs[r].pc = "generating"
    /\ runs[r].pageNum <= runs[r].numPages
    /\ LET result == GenerateTranscriptWithRAG(PageTextOf(runs[r]), runs[r].pageNum,
                                               runs[r].filename, env, replies)
       IN runs' = IF result.threw THEN Fail(r)
                  ELSE [runs EXCEPT ![r].pc = "generatingMcqs",
                                    ![r].allTranscripts =
                                        MapPut(@, runs[r].pageNum, result.value)]
    /\ lastOp' = StepOp(r)
    /\ UNCHANGED <<r2, docs, vectorIndex, fnCall, fnResult>>

\* processPdf, generating: the second half of a loop iteration,
\* await llmService.generateMcqsWithRAG(pageText, pageNum, filename, env), then pageNum++
McqStep(r, env, replies) ==
    /\ runs[r].pc = "generatingMcqs"
    /\ LET result == GenerateMcqsWithRAG(PageTextOf(runs[r]), runs[r].pageNum,
                                         runs[r].filename, env, replies)
       IN runs' = IF result.threw THEN Fail(r)
                  ELSE [runs EXCEPT ![r].pc = "generating",
                                    ![r].allMcqs = MapPut(@, runs[r].pageNum, result.value),
                                    ![r].pageNum = @ + 1]
    /\ lastOp' = StepOp(r)
    /\ UNCHANGED <<r2, docs, vectorIndex, fnCall, fnResult>>

\* processPdf after the loop: await storageService.storeTranscript(...)
StoreTranscriptStep(r, ok) ==
    /\ runs[r].pc = "generating"
    /\ ~(runs[r].pageNum <= runs[r].numPages)
    /\ LET result == StoreTranscript(r2, runs[r].filename, runs[r].allTranscripts, ok)
       IN /\ r2' = result.bucket
          /\ runs' = IF result.threw THEN Fail(r)
                     ELSE [runs EXCEPT ![r].pc = "storingMcqs"]
    /\ lastOp' = StepOp(r)
    /\ UNCHANGED <<docs, vectorIndex, fnCall, fnResult>>

\* processPdf: await storageService.storeMcqs(...), the last step of a run
StoreMcqsStep(r, ok) ==
    /\ runs[r].pc = "storingMcqs"
    /\ LET result == StoreMcqs(r2, runs[r].filename, runs[r].allMcqs, ok)
       IN /\ r2' = result.bucket
          /\ runs' = IF result.threw THEN Fail(r)
                     ELSE Returned(r, "done")
    /\ lastOp' = StepOp(r)
    /\ UNCHANGED <<docs, vectorIndex, fnCall, fnResult>>

\* handleDeletePdf: validateFilename, then storageService.deleteAllFileData
HandleDeletePdf(filename, failAt) ==
    /\ IF ~ValidateFilename(filename)
       THEN /\ lastOp' = [op |-> "handleDeletePdf", filename |-> filename, status |-> 400]
            /\ UNCHANGED r2
       ELSE LET result == DeleteAllFileData(r2, filename, failAt)
            IN /\ r2' = result.bucket
               /\ lastOp' = [op |-> "handleDeletePdf", filename |-> filename,
                             status |-> IF result.threw THEN 500 ELSE 200]
    /\ UNCHANGED <<runs, docs, vectorIndex, fnCall, fnResult>>

\* the backends during one generator call of a run: the embedding backend up or down,
\* the two stores answering or failing
PipeEnvs ==
    {[embScript |-> sc, queryOk |-> up, dbOk |-> up, index |-> vectorIndex, table |-> docs] :
        sc \in PipeScripts, up \in BOOLEAN}

\* the filenames of delete requests, one of them refused by validateFilename
DeleteRequests == PipeFilenames \cup {<<".", ".">>}

Init ==
    /\ runs = [r \in RunIds |-> IdleRun]
    /\ r2 = {}
    /\ docs = {}
    /\ vectorIndex = {}
    /\ lastOp = NoOp
    /\ fnCall = NULL
    /\ fnResult = NULL

Next ==
    \/ \E r \in RunIds, f \in PipeFilenames, ok \in BOOLEAN : HandleUpload(r, f, ok, FALSE)
    \/ \E r \in RunIds, outcome \in ExtractionOutcomes : Extract(r, outcome)
    \/ \E r \in RunIds : Chunk(r)
    \/ \E r \in RunIds, scripts \in [1..MaxPages -> PipeScripts] : Embed(r, scripts)
    \/ \E r \in RunIds, ok \in BOOLEAN : StoreDocumentStep(r, ok)
    \/ \E r \in RunIds, failAt \in 0..1 : UpsertVectorsStep(r, failAt)
    \/ \E r \in RunIds, env \in PipeEnvs, replies \in PipeChatReplies \X PipeChatReplies :
          TranscriptStep(r, env, replies)
    \/ \E r \in RunIds, env \in PipeEnvs, replies \in PipeChatReplies \X PipeChatReplies :
          McqStep(r, env, replies)
    \/ \E r \in RunIds, ok \in BOOLEAN : StoreTranscriptStep(r, ok)
    \/ \E r \in RunIds, ok \in BOOLEAN : StoreMcqsStep(r, ok)
    \/ \E f \in DeleteRequests, failAt \in {0, 3} : HandleDeletePdf(f, failAt)

Spec == Init /\ [][Next]_vars

----------------------------------------------------------------------------
(* Claims about the orchestration *)

PageMapKeys(blob) == {ParseInt(blob[i][1]) : i \in 1..Len(blob)}

PageMapValue(blob, n) == blob[CHOOSE i \in 1..Len(blob) : ParseInt(blob[i][1]) = n][2]

IsNonEmptyString(v) == v.t = "string" /\ v.chars # <<>>

IsNonEmptyArray(v) == v.t = "array" /\ v.items # <<>>

\* run r returns from its last step, the MCQ write, in this step
Completes(r) == runs[r].pc = "storingMcqs" /\ runs'[r].pc = "done"

\* the stored transcript and MCQ blobs of filename have exactly the keys in pages,
\* with non-empty strings and non-empty arrays as values
BlobsCover(bucket, filename, pages) ==
    /\ BucketHas(bucket, BuildTranscriptKey(filename))
    /\ BucketHas(bucket, BuildMcqKey(filename))
    /\ LET transcripts == BucketGet(bucket, BuildTranscriptKey(filename))
           mcqs == BucketGet(bucket, BuildMcqKey(filename))
       IN /\ PageMapKeys(transcripts) = pages
          /\ PageMapKeys(mcqs) = pages
          /\ \A n \in pages : IsNonEmptyString(PageMapValue(transcripts, n))
          /\ \A n \in pages : IsNonEmptyArray(PageMapValue(mcqs, n))

\* C1: when a run whose extraction yielded N pages of text completes, the stored
\* transcript blob has exactly the keys 1..N, each a non-empty string, and the stored
\* MCQ blob has exactly the keys 1..N, each a non-empty array.
C1_BlobsHaveAllPages ==
    [][\A r \in RunIds :
          (Completes(r) /\ runs[r].numPages # -1)
              => BlobsCover(r2', runs[r].filename, 1..Len(runs[r].pages))]_vars

\* C2: a page whose embedding failed in the embedding step of a run that completes
\* is a key of both stored maps.
C2_UnembeddedPageStillStored ==
    [][\A r \in RunIds :
          (Completes(r) /\ runs[r].numPages # -1) =>
              \A p \in DOMAIN runs[r].chunkedDoc.pageChunks \ DOMAIN runs[r].pageEmbeddings :
                  /\ BucketHas(r2', BuildTranscriptKey(runs[r].filename))
                  /\ BucketHas(r2', BuildMcqKey(runs[r].filename))
                  /\ p \in PageMapKeys(BucketGet(r2', BuildTranscriptKey(runs[r].filename)))
                  /\ p \in PageMapKeys(BucketGet(r2', BuildMcqKey(runs[r].filename)))]_vars

\* C8: when the delete-pdf operation has succeeded for f, getDocument(f) returns null
\* and no vector record f:full or f:page:n remains in the index.
C8_DeleteRemovesRowAndVectors ==
    (lastOp.op = "handleDeletePdf" /\ lastOp.status = 200) =>
        /\ GetDocument(docs, lastOp.filename, TRUE) = NULL
        /\ \A rec \in vectorIndex :
              /\ rec.id # FullVectorId(lastOp.filename)
              /\ \A n \in 1..MaxPages : rec.id # PageVectorId(lastOp.filename, n)

\* the steps of run r: each is an awaited call that returns or fails
RunStep(r) ==
    \/ \E outcome \in ExtractionOutcomes : Extract(r, outcome)
    \/ Chunk(r)
    \/ \E scripts \in [1..MaxPages -> PipeScripts] : Embed(r, scripts)
    \/ \E ok \in BOOLEAN : StoreDocumentStep(r, ok)
    \/ \E failAt \in 0..1 : UpsertVectorsStep(r, failAt)
    \/ \E env \in PipeEnvs, replies \in PipeChatReplies \X PipeChatReplies :
          TranscriptStep(r, env, replies)
    \/ \E env \in PipeEnvs, replies \in PipeChatReplies \X PipeChatReplies :
          McqStep(r, env, replies)
    \/ \E ok \in BOOLEAN : StoreTranscriptStep(r, ok)
    \/ \E ok \in BOOLEAN : StoreMcqsStep(r, ok)

RunStarted(r) ==
    runs[r].pc \notin {"idle", "rejected", "done", "failed"}

\* the storage calls that processPdf awaits
StoreSteps(r) ==
    \/ \E ok \in BOOLEAN : StoreDocumentStep(r, ok)
    \/ \E ok \in BOOLEAN : StoreTranscriptStep(r, ok)
    \/ \E ok \in BOOLEAN : StoreMcqsStep(r, ok)

\* weak fairness of RunStep(r), written out: RunStep(r) is enabled exactly while run r
\* is started, and exactly the steps of run r change runs[r]
RunStepFair(r) ==
    []<>(~RunStarted(r)) \/ []<><<runs'[r] # runs[r]>>_vars

\* every external call of a started run eventually returns or fails
SpecFair == Spec /\ \A r \in RunIds : WF_vars(StoreSteps(r)) /\ RunStepFair(r)

\* run r is in its page loop
InPageLoop(r) == runs[r].pc \in {"generating", "generatingMcqs"}

\* C20: every started run ends in done or failed; its page loop visits the pages in
\* increasing order, each once, no generation failure ends the run, and when the loop
\* is left every page 1..N of the extracted text has been visited.
C20_RunTerminatesAfterAllPages ==
    /\ \A r \in RunIds : RunStarted(r) ~> runs[r].pc \in {"done", "failed"}
    /\ [][\A r \in RunIds :
            /\ (runs[r].pc = "generating" /\ runs'[r].pc = "generatingMcqs") =>
                  /\ runs[r].pageNum = Cardinality(DOMAIN runs[r].allTranscripts) + 1
                  /\ DOMAIN runs'[r].allTranscripts = 1..runs[r].pageNum
            /\ (runs[r].pc = "generatingMcqs" /\ runs'[r].pc = "generating") =>
                  /\ DOMAIN runs'[r].allMcqs = 1..runs[r].pageNum
                  /\ runs'[r].pageNum = runs[r].pageNum + 1
            /\ (runs[r].pc = "generatingMcqs") => runs'[r].pc # "failed"
            /\ (runs[r].pc = "generating" /\ ~InPageLoop(r)' /\ runs[r].numPages # -1) =>
                  /\ DOMAIN runs[r].allTranscripts = 1..Len(runs[r].pages)
                  /\ DOMAIN runs[r].allMcqs = 1..Len(runs[r].pages)]_vars

\* the transcript blobs and the MCQ blobs of a bucket
ResultBlobs(bucket) ==
    {o \in bucket : StartsWith(o.key, LLM_TRANSCRIPT_PREFIX) \/ StartsWith(o.key, LLM_MCQ_PREFIX)}

\* run r has left its page loop: pageNum <= numPages is false and every iteration
\* has put its two results in the maps held in memory
LoopFinished(r) ==
    /\ runs[r].pc \in {"generating", "storingMcqs"}
    /\ ~(runs[r].pageNum <= runs[r].numPages)
    /\ DOMAIN runs[r].allTranscripts = 1..runs[r].numPages
    /\ DOMAIN runs[r].allMcqs = 1..runs[r].numPages

\* C21: a step of a run changes the transcript blob or the MCQ blob only after the
\* page loop of the run has finished all its iterations; every earlier step of the
\* run, the generating steps included, leaves the stored blobs as they were, so a
\* run that stops while generating has written neither blob.
C21_BlobsWrittenOnceAfterLoop ==
    [][\A r \in RunIds :
          (runs'[r] # runs[r] /\ ResultBlobs(r2') # ResultBlobs(r2)) => LoopFinished(r)]_vars

\* a run that generated a page has written its transcript blob and is about to write
\* its MCQ blob
C21_Witness ==
    \E r \in RunIds :
        /\ runs[r].pc = "storingMcqs"
        /\ DOMAIN runs[r].allTranscripts # {}
        /\ BucketHas(r2, BuildTranscriptKey(runs[r].filename))
        /\ PageMapKeys(BucketGet(r2, BuildTranscriptKey(runs[r].filename)))
               = DOMAIN runs[r].allTranscripts

\* run r takes one of its two final writes in this step and the write does not succeed
FinalWriteFails(r) ==
    /\ LoopFinished(r)
    /\ runs'[r] # runs[r]
    /\ runs'[r].pc \notin {"storingMcqs", "done"}

\* C22: when the transcript write or the MCQ write of a run fails, the run ends in
\* failed, and the transcript endpoint and the MCQ endpoint answer "not available"
\* (null) for every page of the document.
C22_FailedFinalWriteLeavesNothing ==
    [][\A r \in RunIds :
          FinalWriteFails(r) =>
              /\ runs'[r].pc = "failed"
              /\ \A pageNumber \in 1..MaxPages :
                    /\ GetTranscript(r2', runs[r].filename, pageNumber) = NULL
                    /\ GetMcqs(r2', runs[r].filename, pageNumber) = NULL]_vars

\* what unpdf does with the buffers of the overlapping uploads: it throws, or returns
\* no page, one page or two pages of text
ConcurrentOutcomes ==
    {[kind |-> "throw"]}
        \cup {[kind |-> "pages", text |-> t] :
                 t \in {<<>>} \cup {<<a>> : a \in PipePageTexts}
                              \cup {<<a, b>> : a \in PipePageTexts, b \in PipePageTexts}}

\* Two uploads of the same file whose background runs may overlap: handleUpload
\* starts processPdf through ctx.waitUntil whatever other runs are in progress
NextConcurrent ==
    \/ \E r \in 1..2, f \in PipeFilenames : HandleUpload(r, f, TRUE, TRUE)
    \/ \E r \in RunIds, outcome \in ConcurrentOutcomes : Extract(r, outcome)
    \/ \E r \in RunIds : Chunk(r)
    \/ \E r \in RunIds, scripts \in [1..MaxPages -> PipeScripts] : Embed(r, scripts)
    \/ \E r \in RunIds, ok \in BOOLEAN : StoreDocumentStep(r, ok)
    \/ \E r \in RunIds, failAt \in 0..1 : UpsertVectorsStep(r, failAt)
    \/ \E r \in RunIds, env \in PipeEnvs, replies \in PipeChatReplies \X PipeChatReplies :
          TranscriptStep(r, env, replies)
    \/ \E r \in RunIds, env \in PipeEnvs, replies \in PipeChatReplies \X PipeChatReplies :
          McqStep(r, env, replies)
    \/ \E r \in RunIds, ok \in BOOLEAN : StoreTranscriptStep(r, ok)
    \/ \E r \in RunIds, ok \in BOOLEAN : StoreMcqsStep(r, ok)

SpecConcurrent == Init /\ [][NextConcurrent]_vars

\* run r moves from pc `from` to pc `to` in this step
Moves(r, from, to) == runs[r].pc = from /\ runs'[r].pc = to

\* the vector record of page p of filename in index has exactly the values vec
HoldsVector(index, filename, p, vec) ==
    \A rec \in index : rec.id = PageVectorId(filename, p) => rec.values = vec

\* C25: every record keyed by the document id changes only in a successful write of
\* some run, and after the write it holds that run's value, whatever another run for
\* the same id wrote before: the document row, every page vector the run embedded, the
\* transcript blob and the MCQ blob.
C25_LastWriterWins ==
    [][/\ \A r \in RunIds :
             LET f == runs[r].filename
             IN /\ Moves(r, "storingDocument", "storingVectors") =>
                      /\ Cardinality({row \in docs' : row.id = f}) = 1
                      /\ GetDocument(docs', f, TRUE) = runs[r].chunkedDoc
                /\ Moves(r, "storingVectors", "generating") =>
                      \A p \in DOMAIN runs[r].pageEmbeddings :
                          /\ \E rec \in vectorIndex' : rec.id = PageVectorId(f, p)
                          /\ HoldsVector(vectorIndex', f, p, runs[r].pageEmbeddings[p])
                /\ Moves(r, "generating", "storingMcqs") =>
                      BucketGet(r2', BuildTranscriptKey(f))
                          = StringifyPageMap(runs[r].allTranscripts)
                /\ Moves(r, "storingMcqs", "done") =>
                      BucketGet(r2', BuildMcqKey(f)) = StringifyPageMap(runs[r].allMcqs)
       /\ docs' # docs => \E r \in RunIds : Moves(r, "storingDocument", "storingVectors")
       /\ ResultBlobs(r2') # ResultBlobs(r2) =>
             \E r \in RunIds : Moves(r, "generating", "storingMcqs")
                                   \/ Moves(r, "storingMcqs", "done")]_vars

\* two runs for the same document id are in progress at once, each has made its
\* transcript write, and the stored records come from different runs: the document
\* row is the one of run 1 and the transcript blob is the one of run 2
C25_Witness ==
    /\ runs[1].pc = "storingMcqs" /\ runs[2].pc = "storingMcqs"
    /\ runs[1].filename = runs[2].filename
    /\ runs[1].chunkedDoc # runs[2].chunkedDoc
    /\ runs[1].allTranscripts # runs[2].allTranscripts
    /\ GetDocument(docs, runs[1].filename, TRUE) = runs[1].chunkedDoc
    /\ BucketGet(r2, BuildTranscriptKey(runs[1].filename))
          = StringifyPageMap(runs[2].allTranscripts)

\* The storing step of runs for documents of one page, of one full batch of pages and
\* of one page more than a batch: each run starts where processPdf has extracted,
\* chunked and embedded its document
StoringPageCounts == {1, batchSize, batchSize + 1}

RunAtStoring(filename, n) ==
    LET text == [i \in 1..n |-> LongText]
        extracted == ExtractPdfText([kind |-> "pages", text |-> text])
        chunkedDoc == ProcessDocument(filename, extracted.pages)
        \* the map generatePageEmbeddings returns when the backend answers every page
        pageEmbeddings == [p \in DOMAIN chunkedDoc.pageChunks |-> Vec1]
    IN [IdleRun EXCEPT !.pc = "storingDocument", !.filename = filename,
                       !.numPages = extracted.numPages, !.pages = extracted.pages,
                       !.chunkedDoc = chunkedDoc,
                       !.pageEmbeddings = pageEmbeddings]

StoringRuns == {RunAtStoring(f, n) : f \in PipeFilenames, n \in StoringPageCounts}

InitStoring ==
    /\ runs \in [RunIds -> StoringRuns]
    /\ r2 = {}
    /\ docs = {}
    /\ vectorIndex = {}
    /\ lastOp = NoOp
    /\ fnCall = NULL
    /\ fnResult = NULL

NextStoring ==
    \/ \E r \in RunIds, ok \in BOOLEAN : StoreDocumentStep(r, ok)
    \/ \E r \in RunIds, failAt \in 0..2 : UpsertVectorsStep(r, failAt)

SpecStoring == InitStoring /\ [][NextStoring]_vars

\* the pages of run r whose vectors are in the batches before batch number b
PagesBeforeBatch(r, b) ==
    {p \in DOMAIN runs[r].pageEmbeddings :
        Cardinality({q \in DOMAIN runs[r].pageEmbeddings : q <= p}) <= (b - 1) * batchSize}

\* C26: a failing storeDocument leaves the stores as they are; a failing
\* upsertPageVectors leaves the document rows as they are, removes no vector record
\* and keeps the vectors of the batches upserted before the failing one; in both cases
\* the run ends in failed, and a failed run takes no further step.
C26_StoringFailureKeepsEarlierWrites ==
    [][\A r \in RunIds :
          /\ Moves(r, "storingDocument", "failed") =>
                docs' = docs /\ vectorIndex' = vectorIndex /\ r2' = r2
          /\ \A failAt \in 1..2 :
                (UpsertVectorsStep(r, failAt) /\ runs'[r].pc = "failed") =>
                    /\ docs' = docs
                    /\ \A rec \in vectorIndex : \E kept \in vectorIndex' : kept.id = rec.id
                    /\ \A p \in PagesBeforeBatch(r, failAt) :
                          /\ \E rec \in vectorIndex' :
                                rec.id = PageVectorId(runs[r].filename, p)
                          /\ HoldsVector(vectorIndex', runs[r].filename, p,
                                         runs[r].pageEmbeddings[p])
          /\ runs[r].pc \in {"storingDocument", "storingVectors"} =>
                runs'[r].pc \in {runs[r].pc, "storingVectors", "generating", "failed"}
          /\ runs[r].pc = "failed" => runs'[r] = runs[r]]_vars

\* the second batch of a run failed: the run is failed, its document row and the
\* vectors of its first batch are stored, the vector of the page after the batch is not
C26_Witness ==
    \E r \in RunIds :
        /\ runs[r].pc = "failed"
        /\ GetDocument(docs, runs[r].filename, TRUE) # NULL
        /\ \E rec \in vectorIndex : rec.id = PageVectorId(runs[r].filename, batchSize)
        /\ \A rec \in vectorIndex : rec.id # PageVectorId(runs[r].filename, batchSize + 1)

\* an earlier run for the document id of run r has ended
Reprocesses(r) ==
    \E q \in RunIds : /\ q # r
                      /\ runs[q].filename = runs[r].filename
                      /\ runs[q].pc \in {"done", "failed"}

\* the records of the vector index that carry filename in their metadata
VectorsOf(index, filename) == {rec \in index : rec.metadata.filename = filename}

\* C27: an upload that is accepted starts its run at extracting, and when a run that
\* reprocesses a filename completes, the persisted state of the document id is exactly
\* what this run produced: one document row holding its ChunkedDocument, page vectors
\* for exactly the pages it embedded, and the two blobs holding its two page maps.
C27_LaterRunReplacesEarlier ==
    [][\A r \in RunIds :
          /\ (runs[r].pc = "idle" /\ runs'[r].pc \notin {"idle", "rejected"}) =>
                runs'[r].pc = "extracting"
          /\ (Completes(r) /\ Reprocesses(r)) =>
                LET f == runs[r].filename
                IN /\ Cardinality({row \in docs' : row.id = f}) = 1
                   /\ GetDocument(docs', f, TRUE) = runs[r].chunkedDoc
                   /\ VectorsOf(vectorIndex', f)
                         = {PageVectors(f, runs[r].pageEmbeddings)[i] :
                                i \in 1..Len(PageVectors(f, runs[r].pageEmbeddings))}
                   /\ BucketHas(r2', BuildTranscriptKey(f)) =>   \* not deleted meanwhile
                         BucketGet(r2', BuildTranscriptKey(f))
                            = StringifyPageMap(runs[r].allTranscripts)
                   /\ BucketGet(r2', BuildMcqKey(f)) = StringifyPageMap(runs[r].allMcqs)]_vars

\* C29: in every run that has chunked its pages, the pages the loop generates for,
\* 1..numPages, are the pages of the ChunkedDocument, 1..length of the extracted page
\* list, and each of them has a page text; the fallback result of a failed extraction
\* included.
C29_GeneratedPagesAreChunkedPages ==
    \A r \in RunIds :
        runs[r].chunkedDoc # NULL =>
            /\ 1..runs[r].numPages = DOMAIN runs[r].chunkedDoc.pageChunks
            /\ DOMAIN runs[r].chunkedDoc.pageChunks = 1..Len(runs[r].pages)
            /\ \A p \in 1..runs[r].numPages : p \in 1..Len(runs[r].pages)

\* delete-pdf has just answered success
DeleteSucceeded == lastOp.op = "handleDeletePdf" /\ lastOp.status = 200

\* neither result blob of filename is in the bucket
NoResultBlobs(bucket, filename) ==
    /\ ~BucketHas(bucket, BuildTranscriptKey(filename))
    /\ ~BucketHas(bucket, BuildMcqKey(filename))

\* C30: once delete-pdf has answered success for f, no transcript blob, MCQ blob,
\* document row or vector record of f exists afterwards unless f is uploaded again,
\* also when a run for f was in progress at the delete.
C30_DeletedStaysDeleted ==
    [][(DeleteSucceeded /\ lastOp'.op # "handleUpload") =>
           /\ NoResultBlobs(r2', lastOp.filename)
           /\ GetDocument(docs', lastOp.filename, TRUE) = NULL
           /\ VectorsOf(vectorIndex', lastOp.filename) = {}]_vars

----------------------------------------------------------------------------
(* The embedder on its own: every call of generateEmbedding and of                *)
(* generatePageEmbeddings over a set of backend behaviours                        *)

ScriptLen == 3

Vectors == {Vec1, Vec2}

\* thrown errors the catch block is meant to retry
RetryableThrows ==
    {AiThrow("InferenceUpstreamError", TRUE, {}),
     AiThrow("Error", TRUE, {"internal error"}),
     AiThrow("Error", TRUE, {"upstream"})}

\* thrown errors of other kinds: bad input or authentication, an error without message
FatalThrows == {AiThrow("Error", TRUE, {}), AiThrow("AuthenticationError", FALSE, {})}

\* the response shapes the decoder accepts, carrying vector v
GoodReplies(v) ==
    {AiObject(Nested(v), Absent, {}), AiObject(Flat(v), Absent, {}),
     AiObject(Absent, Flat(v), {}), AiArray(v)}

\* an empty vector, an object of another shape (one of them an error report of the
\* backend that mentions its upstream), a non-object, a non-array embedding field
BadReplies ==
    {AiObject(Flat(<<>>), Absent, {}),
     AiObject(Absent, Absent, {}),
     AiObject(Absent, Absent, {"upstream"}),
     AiPrimitive,
     AiObject(Absent, NotArray, {})}

EmbReplies ==
    RetryableThrows \cup FatalThrows \cup GoodReplies(Vec1) \cup {AiArray(Vec2)} \cup BadReplies

EmbedCalls ==
    {[fn |-> "generateEmbedding", text |-> LongText, script |-> sc] :
        sc \in [1..ScriptLen -> EmbReplies]}

\* the backend during the embedding of one page: up, failing once, failing throughout,
\* refusing the input
PageScripts ==
    {<<AiObject(Nested(Vec1), Absent, {})>>,
     <<AiThrow("InferenceUpstreamError", TRUE, {}), AiArray(Vec2)>>,
     <<AiThrow("InferenceUpstreamError", TRUE, {})>>,
     <<AiThrow("Error", TRUE, {})>>}

PageEmbedCalls ==
    {[fn |-> "generatePageEmbeddings",
      pageChunks |-> ProcessDocument(<<"a">>, pages).pageChunks,
      scripts |-> scripts] :
        pages \in SeqsUpTo({ShortText, LongText}, MaxPages),
        scripts \in [1..MaxPages -> PageScripts]}

StoresIdle ==
    /\ runs = [r \in RunIds |-> IdleRun]
    /\ r2 = {}
    /\ docs = {}
    /\ vectorIndex = {}
    /\ lastOp = NoOp

Called == fnResult # NULL

InitEmbed ==
    /\ StoresIdle
    /\ fnCall \in EmbedCalls \cup PageEmbedCalls
    /\ fnResult = NULL

CallGenerateEmbedding ==
    /\ fnCall.fn = "generateEmbedding"
    /\ ~Called
    /\ fnResult' = GenerateEmbedding(fnCall.text, fnCall.script, 0)
    /\ UNCHANGED <<runs, r2, docs, vectorIndex, lastOp, fnCall>>

CallGeneratePageEmbeddings ==
    /\ fnCall.fn = "generatePageEmbeddings"
    /\ ~Called
    /\ fnResult' = GeneratePageEmbeddings(fnCall.pageChunks, fnCall.scripts)
    /\ UNCHANGED <<runs, r2, docs, vectorIndex, lastOp, fnCall>>

NextEmbed == CallGenerateEmbedding \/ CallGeneratePageEmbeddings

SpecEmbed == InitEmbed /\ [][NextEmbed]_vars

\* the vector a recognised response carries
CarriedVector(reply) ==
    IF reply.kind = "array" THEN reply.vec
    ELSE IF reply.data.t # "absent" THEN reply.data.vec ELSE reply.embedding.vec

AllGoodReplies == UNION {GoodReplies(v) : v \in Vectors}

EmbeddingReturned == fnCall.fn = "generateEmbedding" /\ Called

\* C4 as stated: two retryable failures followed by a success make generateEmbedding
\* return the successful vector after exactly 3 attempts.
C4_ThirdAttemptSucceeds ==
    (/\ EmbeddingReturned
     /\ fnCall.script[1] \in RetryableThrows
     /\ fnCall.script[2] \in RetryableThrows
     /\ fnCall.script[3] \in AllGoodReplies)
        => /\ ~fnResult.threw
           /\ fnResult.attempts = 3
           /\ fnResult.embedding = CarriedVector(fnCall.script[3])

\* C4, amended: one retryable failure followed by a success makes generateEmbedding
\* return the successful vector after exactly 2 attempts; two retryable failures make it
\* throw the second error after 2 attempts; and no call makes more than
\* MAX_RETRIES + 1 attempts, whatever the backend does.
C4_RetryBudget ==
    EmbeddingReturned =>
        /\ fnResult.attempts <= MAX_RETRIES + 1
        /\ (fnCall.script[1] \in RetryableThrows /\ fnCall.script[2] \in AllGoodReplies)
              => /\ ~fnResult.threw
                 /\ fnResult.attempts = 2
                 /\ fnResult.embedding = CarriedVector(fnCall.script[2])
        /\ (fnCall.script[1] \in RetryableThrows /\ fnCall.script[2] \in RetryableThrows)
              => /\ fnResult.threw
                 /\ fnResult.attempts = 2
                 /\ fnResult.error = fnCall.script[2].error

C4_Witness ==
    /\ EmbeddingReturned
    /\ fnCall.script[1] \in RetryableThrows
    /\ fnCall.script[2] \in AllGoodReplies
    /\ ~fnResult.threw
    /\ fnResult.attempts = 2

\* C5: only failures classified as retryable are retried; any other failure of the
\* first call (a fatal error, an unrecognised or empty response shape) reaches the
\* caller after exactly one backend call and without a backoff delay.
C5_FatalFailsAtOnce ==
    EmbeddingReturned =>
        /\ fnResult.attempts > 1 => fnCall.script[1] \in RetryableThrows
        /\ fnCall.script[1] \in FatalThrows \cup BadReplies
              => /\ fnResult.threw
                 /\ fnResult.attempts = 1
                 /\ fnResult.delays = <<>>

PageEmbeddingsReturned == fnCall.fn = "generatePageEmbeddings" /\ Called

\* the pages the loop called generateEmbedding for, in call order
PagesAttempted(trace) ==
    LET calls == SelectSeq(trace, LAMBDA e : e.ev = "embed")
    IN [i \in 1..Len(calls) |-> calls[i].page]

\* the outcome of the embed call of page p of the current call, retries included
PageEmbedOutcome(p) ==
    GenerateEmbedding(Substring(JoinWith(fnCall.pageChunks[p], <<" ">>), 0, EMBED_TEXT_LIMIT),
                      fnCall.scripts[p], 0)

\* C6: generatePageEmbeddings never throws; it attempts every page, in page order; the
\* keys of the returned map are input pages; a page is in the map exactly when its
\* own embed call succeeded, whatever happened to the pages before it.
C6_PageEmbeddingsBestEffort ==
    PageEmbeddingsReturned =>
        /\ ~fnResult.threw
        /\ PagesAttempted(fnResult.trace) = SortedSeq(DOMAIN fnCall.pageChunks)
        /\ DOMAIN fnResult.pageEmbeddings \subseteq DOMAIN fnCall.pageChunks
        /\ \A p \in DOMAIN fnCall.pageChunks :
              /\ p \in DOMAIN fnResult.pageEmbeddings <=> ~PageEmbedOutcome(p).threw
              /\ p \in DOMAIN fnResult.pageEmbeddings
                    => fnResult.pageEmbeddings[p] = PageEmbedOutcome(p).embedding

C6_Witness ==
    /\ PageEmbeddingsReturned
    /\ 2 \in DOMAIN fnCall.pageChunks
    /\ PageEmbedOutcome(1).threw
    /\ 1 \notin DOMAIN fnResult.pageEmbeddings
    /\ 2 \in DOMAIN fnResult.pageEmbeddings

\* C24: in the sequence of events of a generatePageEmbeddings call, every two
\* successive page embedding calls have the fixed delay between them, whether the
\* earlier of the two succeeded or failed.
C24_DelayBetweenEmbeddingCalls ==
    PageEmbeddingsReturned =>
        \A i \in 1..Len(fnResult.trace), j \in 1..Len(fnResult.trace) :
            (i < j /\ fnResult.trace[i].ev = "embed" /\ fnResult.trace[j].ev = "embed") =>
                \E k \in (i + 1)..(j - 1) :
                    fnResult.trace[k] = [ev |-> "delay", ms |-> DELAY_BETWEEN_REQUESTS]

----------------------------------------------------------------------------
(* The vector store adapter on its own: upserts and deletions for filenames that  *)
(* contain the separators of the id scheme                                        *)

\* the highest page number a vector is written for; one beyond DELETE_PAGE_RANGE
MaxPageNumber == 101

VecPageNumbers == {1, MaxPageNumber}

VecFilenames ==
    {<<"a">>,
     <<"a", ":", "p", "a", "g", "e">>,
     <<"a", ":", "f", "u", "l", "l">>}

\* the stored records an upsert of these vectors replaces
Displaced(index, vectors) ==
    {rec \in index : \E i \in 1..Len(vectors) : vectors[i].id = rec.id}

InitVector ==
    /\ StoresIdle
    /\ fnCall = NULL
    /\ fnResult = NULL

VUpsertPageVectors(filename, pages, failAt) ==
    LET pageEmbeddings == [n \in pages |-> Vec1]
        result == UpsertPageVectors(vectorIndex, filename, pageEmbeddings, failAt)
    IN /\ vectorIndex' = result.index
       /\ lastOp' = [op |-> "upsertPageVectors", filename |-> filename,
                     status |-> IF result.threw THEN 500 ELSE 200,
                     displaced |-> IF result.threw THEN {}
                                   ELSE Displaced(vectorIndex,
                                                  PageVectors(filename, pageEmbeddings))]
       /\ UNCHANGED <<runs, r2, docs, fnCall, fnResult>>

VUpsertFullTextVector(filename, ok) ==
    LET result == UpsertFullTextVector(vectorIndex, filename, Vec1, ok)
    IN /\ vectorIndex' = result.index
       /\ lastOp' = [op |-> "upsertFullTextVector", filename |-> filename,
                     status |-> IF result.threw THEN 500 ELSE 200,
                     displaced |-> IF result.threw THEN {}
                                   ELSE {rec \in vectorIndex : rec.id = FullVectorId(filename)}]
       /\ UNCHANGED <<runs, r2, docs, fnCall, fnResult>>

VDeleteDocumentVectors(filename, failAt) ==
    /\ vectorIndex' = DeleteDocumentVectors(vectorIndex, filename, failAt)
    /\ lastOp' = [op |-> "deleteDocumentVectors", filename |-> filename, status |-> 200,
                  displaced |-> {}, indexFailed |-> failAt # 0]
    /\ UNCHANGED <<runs, r2, docs, fnCall, fnResult>>

NextVector ==
    \/ \E f \in VecFilenames, pages \in SUBSET VecPageNumbers, failAt \in 0..1 :
          VUpsertPageVectors(f, pages, failAt)
    \/ \E f \in VecFilenames, ok \in BOOLEAN : VUpsertFullTextVector(f, ok)
    \/ \E f \in VecFilenames, failAt \in 0..2 : VDeleteDocumentVectors(f, failAt)

SpecVector == InitVector /\ [][NextVector]_vars

\* the (filename, kind, pageNumber) a record was written for
Triple(rec) ==
    [filename |-> rec.metadata.filename,
     type |-> rec.metadata.type,
     pageNumber |-> IF rec.metadata.type = "page" THEN rec.metadata.pageNumber ELSE 0]

\* C7: after deleteDocumentVectors(f) has returned, every call to the index having
\* succeeded, no record written for f, with an id that starts with f + ":", is left
\* in the index, and the similarity queries scoped to f return no match.
C7_DeleteLeavesNoVector ==
    (lastOp.op = "deleteDocumentVectors" /\ ~lastOp.indexFailed) =>
        /\ \A rec \in vectorIndex :
              ~(rec.metadata.filename = lastOp.filename
                  /\ StartsWith(rec.id, lastOp.filename \o S_colon))
        /\ QueryFullTextVector(vectorIndex, lastOp.filename, QUERY_TOP_K, TRUE) = {}
        /\ QueryAllPageVectors(vectorIndex, lastOp.filename, QUERY_TOP_K, TRUE) = {}
        /\ \A n \in VecPageNumbers :
              QueryPageTextVector(vectorIndex, lastOp.filename, n, QUERY_TOP_K, TRUE) = {}

\* C9: two records written by upsertFullTextVector / upsertPageVectors have the same
\* id only if they were written for the same filename, kind and page number: among
\* the stored records and the ones the last upsert replaced, equal ids mean equal
\* triples, also for filenames that contain ":" or end in ":page" or ":full".
C9_VectorIdInjective ==
    lastOp.op \in {"upsertPageVectors", "upsertFullTextVector"} =>
        \A rec1 \in vectorIndex \cup lastOp.displaced :
            \A rec2 \in vectorIndex \cup lastOp.displaced :
                rec1.id = rec2.id => Triple(rec1) = Triple(rec2)

C9_Witness ==
    /\ lastOp.op = "upsertPageVectors"
    /\ lastOp.displaced # {}
    /\ \E rec1 \in vectorIndex : \E rec2 \in vectorIndex :
          /\ rec1.metadata.filename = <<"a">> /\ rec1.metadata.type = "page"
          /\ rec2.metadata.filename = <<"a", ":", "p", "a", "g", "e">>
          /\ rec2.metadata.type = "full"

----------------------------------------------------------------------------
(* createAugmentedPrompt on its own: any goal, any list of ranked chunks          *)

\* the longest list of ranked chunks handed to createAugmentedPrompt
MaxRanked == 3

\* a text of n letters
Letters(n) == [i \in 1..n |-> "x"]

\* chunk texts: every length from empty to beyond the budget, and texts that begin
\* or end with white space
AugmentTexts ==
    {Letters(n) : n \in 0..(MAX_CONTEXT_LENGTH + 1)}
        \cup {<<" ">>, <<"x", " ">>, <<"\n", "x", "x">>}

AugmentGoals == {<<>>, TranscriptGoal}

\* the ranked chunks: page numbers and scores follow the rank
RankedChunks ==
    {[i \in 1..Len(texts) |-> [text |-> texts[i], pageNumber |-> i, score |-> 1]] :
        texts \in SeqsUpTo(AugmentTexts, MaxRanked)}

AugmentCalls ==
    {[fn |-> "createAugmentedPrompt", originalPrompt |-> goal, relevantTexts |-> ranked] :
        goal \in AugmentGoals, ranked \in RankedChunks}

InitAugment ==
    /\ StoresIdle
    /\ fnCall \in AugmentCalls
    /\ fnResult = NULL

CallCreateAugmentedPrompt ==
    /\ fnCall.fn = "createAugmentedPrompt"
    /\ ~Called
    /\ fnResult' = CreateAugmentedPrompt(fnCall.originalPrompt, fnCall.relevantTexts)
    /\ UNCHANGED <<runs, r2, docs, vectorIndex, lastOp, fnCall>>

NextAugment == CallCreateAugmentedPrompt

SpecAugment == InitAugment /\ [][NextAugment]_vars

\* C10: whatever the goal and the ranked chunks, the relevantText returned by
\* createAugmentedPrompt is at most MAX_CONTEXT_LENGTH characters long, the blank
\* lines between the chunks included.
C10_RelevantTextWithinBudget ==
    (Called /\ fnCall.fn = "createAugmentedPrompt") =>
        Len(fnResult.relevantText) <= MAX_CONTEXT_LENGTH

\* two chunks are included and, with the blank line between them, fill the budget
C10_Witness ==
    /\ Called
    /\ fnCall.fn = "createAugmentedPrompt"
    /\ Len(fnResult.sources) = 2
    /\ Len(fnCall.relevantTexts) = 3
    /\ Len(fnResult.relevantText) = MAX_CONTEXT_LENGTH

RECURSIVE RunningText(_, _)
\* the first k ranked texts, each followed by a blank line
RunningText(ranked, k) ==
    IF k = 0 THEN <<>> ELSE RunningText(ranked, k - 1) \o ranked[k].text \o SepBlankLine

\* C11: createAugmentedPrompt includes a prefix of the ranked chunks: every included
\* chunk fits the budget when it is added, the first chunk left out is the first one
\* that would exceed it and nothing after it is included; sources has one entry per
\* included chunk, in order, with that chunk's page number and score.
C11_PrefixOfRankedChunks ==
    (Called /\ fnCall.fn = "createAugmentedPrompt") =>
        LET ranked == fnCall.relevantTexts
            k == Len(fnResult.sources)
        IN /\ k <= Len(ranked)
           /\ fnResult.relevantText = Trim(RunningText(ranked, k))
           /\ \A j \in 1..k :
                 /\ Len(RunningText(ranked, j - 1)) + Len(ranked[j].text)
                        <= MAX_CONTEXT_LENGTH
                 /\ fnResult.sources[j] = [pageNumber |-> ranked[j].pageNumber,
                                           score |-> ranked[j].score]
           /\ k < Len(ranked) =>
                 Len(RunningText(ranked, k)) + Len(ranked[k + 1].text) > MAX_CONTEXT_LENGTH

\* the second chunk does not fit, the third one would, and only the first is included
C11_Witness ==
    /\ Called
    /\ fnCall.fn = "createAugmentedPrompt"
    /\ Len(fnCall.relevantTexts) = 3
    /\ Len(fnResult.sources) = 1
    /\ fnCall.relevantTexts[1].text # <<>>
    /\ Len(RunningText(fnCall.relevantTexts, 1)) + Len(fnCall.relevantTexts[3].text)
          <= MAX_CONTEXT_LENGTH

----------------------------------------------------------------------------
(* The four content generators on their own, against every behaviour of the       *)
(* embedding backend, the index, the document store and the chat backend          *)

GenFilename == <<"a">>

GenPageNumbers == {1}

\* page texts: a missing text, one below MIN_TEXT_LENGTH, one above
GenPageTexts == {UndefinedText, ShortText, LongText}

\* what the chat backend may answer
GenChatReplies ==
    {ChatThrow, ChatRaw, ChatPrimitive,
     ChatObject(JsUndefined),
     ChatObject(JsOther),
     ChatObject(Str(<<>>, NoMatch)),
     ChatObject(Str(<<"Some summary.">>, NoMatch)),
     ChatObject(Str(<<"[", "{", "]">>, Malformed)),
     ChatObject(Str(<<"[", "]">>, Parsed(<<>>))),
     ChatObject(Str(<<"[", "1", "]">>, Parsed(<<ElemPrimitive>>))),
     ChatObject(Str(<<"[", "{...}", "]">>, Parsed(<<OneQuestion>>)))}

\* the document row and the page vector an earlier processing run has stored
GenTable == StoreDocument({}, ProcessDocument(GenFilename, <<LongText>>), TRUE).table

GenIndex == UpsertPageVectors({}, GenFilename, [n \in {1} |-> Vec1], 0).index

\* the index may hold no vector of the page: the embedding of the page failed in the run
GenEnvs ==
    {[embScript |-> sc, queryOk |-> qOk, dbOk |-> dOk, index |-> ix, table |-> tb] :
        sc \in PipeScripts, qOk \in BOOLEAN, dOk \in BOOLEAN, ix \in {{}, GenIndex},
        tb \in {{}, GenTable}}

GenCalls ==
    {[fn |-> f, pageText |-> txt, pageNumber |-> n, reply |-> reply] :
        f \in {"generateTranscript", "generateMcqs"}, txt \in GenPageTexts,
        n \in GenPageNumbers, reply \in GenChatReplies}
    \cup
    {[fn |-> f, pageText |-> txt, pageNumber |-> n, env |-> env,
      replies |-> <<first, second>>] :
        f \in {"generateTranscriptWithRAG", "generateMcqsWithRAG"}, txt \in GenPageTexts,
        n \in GenPageNumbers, env \in GenEnvs,
        first \in GenChatReplies, second \in GenChatReplies}

InitGen ==
    /\ StoresIdle
    /\ fnCall \in GenCalls
    /\ fnResult = NULL

CallGenerateTranscript ==
    /\ fnCall.fn = "generateTranscript"
    /\ ~Called
    /\ fnResult' = GenerateTranscript(fnCall.pageText, fnCall.pageNumber, fnCall.reply)
    /\ UNCHANGED <<runs, r2, docs, vectorIndex, lastOp, fnCall>>

CallGenerateMcqs ==
    /\ fnCall.fn = "generateMcqs"
    /\ ~Called
    /\ fnResult' = GenerateMcqs(fnCall.pageText, fnCall.pageNumber, fnCall.reply)
    /\ UNCHANGED <<runs, r2, docs, vectorIndex, lastOp, fnCall>>

CallGenerateTranscriptWithRAG ==
    /\ fnCall.fn = "generateTranscriptWithRAG"
    /\ ~Called
    /\ fnResult' = GenerateTranscriptWithRAG(fnCall.pageText, fnCall.pageNumber, GenFilename,
                                             fnCall.env, fnCall.replies)
    /\ UNCHANGED <<runs, r2, docs, vectorIndex, lastOp, fnCall>>

CallGenerateMcqsWithRAG ==
    /\ fnCall.fn = "generateMcqsWithRAG"
    /\ ~Called
    /\ fnResult' = GenerateMcqsWithRAG(fnCall.pageText, fnCall.pageNumber, GenFilename,
                                       fnCall.env, fnCall.replies)
    /\ UNCHANGED <<runs, r2, docs, vectorIndex, lastOp, fnCall>>

NextGen ==
    \/ CallGenerateTranscript
    \/ CallGenerateMcqs
    \/ CallGenerateTranscriptWithRAG
    \/ CallGenerateMcqsWithRAG

SpecGen == InitGen /\ [][NextGen]_vars

TranscriptGenerators == {"generateTranscript", "generateTranscriptWithRAG"}

McqGenerators == {"generateMcqs", "generateMcqsWithRAG"}

\* C3: whatever the backends do, a content generator does not throw and returns a
\* usable value: the transcript generators a non-empty string, the MCQ generators a
\* non-empty array.
C3_GeneratorsAlwaysUsable ==
    (Called /\ fnCall.fn \in TranscriptGenerators \cup McqGenerators) =>
        /\ ~fnResult.threw
        /\ fnCall.fn \in TranscriptGenerators => IsNonEmptyString(fnResult.value)
        /\ fnCall.fn \in McqGenerators => IsNonEmptyArray(fnResult.value)

\* pageText.substring(0, MAX_INPUT_TEXT_LENGTH).trim() is below MIN_TEXT_LENGTH
TextTooShort(pageText) ==
    /\ pageText # UndefinedText
    /\ Len(Trim(Substring(pageText, 0, MAX_INPUT_TEXT_LENGTH))) < MIN_TEXT_LENGTH

\* C17: for a page text shorter than the minimum length, an MCQ generator returns the
\* fixed fallback array (2 items, each with 4 options and a correct index in 0..3) and
\* makes no call to the generation backend.
C17_ShortTextGetsFallbackMcqs ==
    (Called /\ fnCall.fn \in McqGenerators /\ TextTooShort(fnCall.pageText)) =>
        /\ fnResult.chatCalls = 0
        /\ fnResult.value = CreateFallbackMcqs(fnCall.pageNumber)
        /\ Len(fnResult.value.items) = 2
        /\ \A i \in 1..Len(fnResult.value.items) :
              /\ Len(fnResult.value.items[i].options) = 4
              /\ fnResult.value.items[i].correct \in 0..3

\* C18: every element of an array an MCQ generator has made from the JSON array of the
\* generation backend has a question, a list of exactly 4 options and an integer
\* correct index, its position as id and the page number as page.
C18_McqElementsValidated ==
    (Called /\ fnCall.fn \in McqGenerators
        /\ fnResult.value # CreateFallbackMcqs(fnCall.pageNumber)) =>
        \A i \in 1..Len(fnResult.value.items) :
            LET item == fnResult.value.items[i]
            IN /\ {"question", "options", "correct", "id", "page"} \subseteq DOMAIN item
               /\ Len(item.options) = 4
               /\ item.correct \in Int
               /\ item.id = i - 1
               /\ item.page = fnCall.pageNumber

RagGenerators == {"generateTranscriptWithRAG", "generateMcqsWithRAG"}

\* C28: a RAG generator embeds the query text once at most, and when the embedding is
\* there it queries the vector store once for the page and hands to the augmentation
\* one context chunk per hit of that query, each the stored text of the page of its
\* hit; a query without hits gives no context chunk.
C28_ContextChunksAreTheHits ==
    (Called /\ fnCall.fn \in RagGenerators) =>
        LET retrieval == fnResult.retrieval
        IN /\ retrieval.embedCalls <= 1
           /\ ~retrieval.threw =>
                 /\ retrieval.embedCalls = 1
                 /\ retrieval.queries = 1
                 /\ Len(retrieval.relevantTexts) = Cardinality(retrieval.pageResults)
                 /\ \A i \in 1..Len(retrieval.relevantTexts) :
                       \E hit \in retrieval.pageResults :
                           hit.metadata.pageNumber = retrieval.relevantTexts[i].pageNumber
                 /\ retrieval.pageResults = {} => retrieval.relevantTexts = <<>>

----------------------------------------------------------------------------
(* chunkText on its own, loop iteration by loop iteration, for any configuration  *)
(* of chunk size and overlap and any text                                         *)

\* the longest text handed to chunkText
MaxTextLen == 6

\* the largest configured chunk size
MaxChunkSize == 4

ChunkAlphabet == <<"a", "b", "c", "d", "e", "f", "g", "h", "i", "j">>

\* texts of distinct letters in which any position may hold a blank
ChunkTexts ==
    UNION {{[i \in 1..n |-> IF i \in blanks THEN " " ELSE ChunkAlphabet[i]] :
               blanks \in SUBSET (1..n)} : n \in 0..MaxTextLen}

\* every configuration, the ones with a non-positive step and a negative overlap included
ChunkConfigs ==
    {[CHUNK_SIZE |-> size, CHUNK_OVERLAP |-> overlap] :
        size \in 1..MaxChunkSize, overlap \in -1..(MaxChunkSize + 1)}

\* 0 <= overlap < chunkSize
ValidChunkConfig(config) ==
    0 <= config.CHUNK_OVERLAP /\ config.CHUNK_OVERLAP < config.CHUNK_SIZE

\* iterations after which a loop that has not ended is known never to end
MaxIterations == MaxTextLen + 2

ChunkCalls ==
    {[fn |-> "chunkText", text |-> text, config |-> config] :
        text \in ChunkTexts, config \in ChunkConfigs}

InitChunk ==
    /\ StoresIdle
    /\ fnCall \in ChunkCalls
    /\ fnResult = NULL

\* chunkText is entered: it returns at once or reaches its loop
CallChunkText ==
    /\ fnCall.fn = "chunkText"
    /\ ~Called
    /\ LET entry == ChunkEntry(fnCall.text, fnCall.config)
       IN fnResult' = [pc |-> entry.pc, startIndex |-> entry.startIndex,
                       chunks |-> entry.chunks, iterations |-> 0]
    /\ UNCHANGED <<runs, r2, docs, vectorIndex, lastOp, fnCall>>

\* one iteration of the while loop, or its exit
ChunkIterate ==
    /\ fnCall.fn = "chunkText"
    /\ Called
    /\ fnResult.pc = "loop"
    /\ fnResult.iterations < MaxIterations
    /\ IF ~(fnResult.startIndex < Len(fnCall.text))
       THEN fnResult' = [fnResult EXCEPT !.pc = "returned"]
       ELSE LET iteration == ChunkLoopBody(fnCall.text, fnResult.startIndex,
                                           fnResult.chunks, fnCall.config)
            IN fnResult' = [pc |-> IF iteration.exit THEN "returned" ELSE "loop",
                            startIndex |-> iteration.startIndex,
                            chunks |-> iteration.chunks,
                            iterations |-> fnResult.iterations + 1]
    /\ UNCHANGED <<runs, r2, docs, vectorIndex, lastOp, fnCall>>

NextChunk == CallChunkText \/ ChunkIterate

SpecChunk == InitChunk /\ [][NextChunk]_vars

\* every started call and every loop iteration eventually completes
SpecChunkFair == SpecChunk /\ WF_vars(NextChunk)

ChunkReturned == Called /\ fnCall.fn = "chunkText" /\ fnResult.pc = "returned"

\* C12: for a text no longer than the chunk size, the empty text included, chunkText
\* returns the one-element list holding the text itself, untrimmed.
C12_ShortTextIsOneChunk ==
    (Called /\ fnCall.fn = "chunkText" /\ Len(fnCall.text) <= fnCall.config.CHUNK_SIZE) =>
        /\ fnResult.pc = "returned"
        /\ fnResult.chunks = <<fnCall.text>>

\* a short text with a blank at its end has been returned
C12_Witness ==
    /\ ChunkReturned
    /\ Len(fnCall.text) = fnCall.config.CHUNK_SIZE
    /\ fnCall.text # Trim(fnCall.text)
    /\ fnResult.chunks = <<fnCall.text>>

\* C13: for a valid configuration (0 <= overlap < chunkSize) and any text, chunkText
\* terminates, and every chunk it returns is at most chunkSize characters long.
C13_ChunkTerminatesBounded ==
    /\ (fnCall.fn = "chunkText" /\ ValidChunkConfig(fnCall.config)) ~> ChunkReturned
    /\ []((ChunkReturned /\ ValidChunkConfig(fnCall.config)) =>
            \A i \in 1..Len(fnResult.chunks) :
                Len(fnResult.chunks[i]) <= fnCall.config.CHUNK_SIZE)

\* a text longer than the chunk size has been cut into at least three chunks
C13_Witness ==
    /\ ChunkReturned
    /\ ValidChunkConfig(fnCall.config)
    /\ Len(fnCall.text) > fnCall.config.CHUNK_SIZE
    /\ Len(fnResult.chunks) >= 3
    /\ fnResult.iterations >= 3

\* the last n characters of s, the first n characters of s
LastChars(s, n) == SubSeq(s, Len(s) - n + 1, Len(s))
FirstChars(s, n) == SubSeq(s, 1, n)

\* C14 as stated: for a text longer than the chunk size and a valid configuration, the
\* last overlap characters of each returned chunk are the first overlap characters of
\* the next one, except where the final chunk is shorter than overlap.
C14_ConsecutiveChunksOverlap ==
    (ChunkReturned /\ ValidChunkConfig(fnCall.config)
        /\ Len(fnCall.text) > fnCall.config.CHUNK_SIZE) =>
        \A i \in 1..(Len(fnResult.chunks) - 1) :
            LET overlap == fnCall.config.CHUNK_OVERLAP
                this == fnResult.chunks[i]
                following == fnResult.chunks[i + 1]
            IN \/ i + 1 = Len(fnResult.chunks) /\ Len(following) < overlap
               \/ /\ Len(this) >= overlap
                  /\ Len(following) >= overlap
                  /\ LastChars(this, overlap) = FirstChars(following, overlap)

\* no window the loop visits begins or ends with white space, so that trimming
\* changes no chunk and drops none
NoWindowTrimmed(text, config) ==
    \A k \in 0..Len(text) :
        LET startIndex == k * (config.CHUNK_SIZE - config.CHUNK_OVERLAP)
            endIndex == Min(startIndex + config.CHUNK_SIZE, Len(text))
            window == SubSeq(text, startIndex + 1, endIndex)
        IN startIndex < Len(text) => (window # <<>> /\ Trim(window) = window)

\* C14, amended: for a text longer than the chunk size whose windows neither begin nor
\* end with white space, and a valid configuration, the last overlap characters of a
\* returned chunk are the first overlap characters of the next one whenever that next
\* chunk has at least overlap characters (the chunks of the text's tail may be shorter).
C14_UntrimmedChunksOverlap ==
    (ChunkReturned /\ ValidChunkConfig(fnCall.config)
        /\ Len(fnCall.text) > fnCall.config.CHUNK_SIZE
        /\ NoWindowTrimmed(fnCall.text, fnCall.config)) =>
        \A i \in 1..(Len(fnResult.chunks) - 1) :
            LET overlap == fnCall.config.CHUNK_OVERLAP
                this == fnResult.chunks[i]
                following == fnResult.chunks[i + 1]
            IN Len(following) >= overlap =>
                  /\ Len(this) >= overlap
                  /\ LastChars(this, overlap) = FirstChars(following, overlap)

\* three chunks that share two characters each have been returned
C14_Witness ==
    /\ ChunkReturned
    /\ fnCall.config = [CHUNK_SIZE |-> 3, CHUNK_OVERLAP |-> 2]
    /\ NoWindowTrimmed(fnCall.text, fnCall.config)
    /\ Len(fnCall.text) = 5
    /\ Len(fnResult.chunks) >= 3
    /\ LastChars(fnResult.chunks[1], 2) = FirstChars(fnResult.chunks[2], 2)

\* C15: for a configuration with overlap >= chunkSize or overlap < 0, chunkText raises
\* a validation error before it produces any chunk: once called it never is in its
\* loop and never has returned a list.
C15_InvalidConfigRejected ==
    (Called /\ fnCall.fn = "chunkText" /\ ~ValidChunkConfig(fnCall.config)) =>
        /\ fnResult.pc = "rejected"
        /\ fnResult.chunks = <<>>

----------------------------------------------------------------------------
(* The document store on its own: processDocument, storeDocument, getDocument and *)
(* deleteDocument for two filenames, with a statement that may fail               *)

\* the most pages of a processed document
MaxDocPages == 2

DocFilenames == {<<"a">>, <<"b">>}

\* page texts: an empty page and one that is cut into several chunks
DocPageTexts == {<<>>, LongText}

DocPages == SeqsUpTo(DocPageTexts, MaxDocPages)

InitDocs ==
    /\ StoresIdle
    /\ fnCall = NULL
    /\ fnResult = NULL

\* processDocument(filename, pages) followed by storeDocument of its result
DStoreDocument(filename, pages, ok) ==
    LET chunkedDoc == ProcessDocument(filename, pages)
        result == StoreDocument(docs, chunkedDoc, ok)
    IN /\ docs' = result.table
       /\ lastOp' = [op |-> "storeDocument", filename |-> filename,
                     status |-> IF result.threw THEN 500 ELSE 200,
                     document |-> chunkedDoc,
                     existed |-> \E row \in docs : row.id = filename]
       /\ UNCHANGED <<runs, r2, vectorIndex, fnCall, fnResult>>

DGetDocument(filename, ok) ==
    /\ lastOp' = [op |-> "getDocument", filename |-> filename, status |-> 200,
                  document |-> GetDocument(docs, filename, ok)]
    /\ UNCHANGED <<runs, r2, docs, vectorIndex, fnCall, fnResult>>

DDeleteDocument(filename, ok) ==
    LET result == DeleteDocument(docs, filename, ok)
    IN /\ docs' = result.table
       /\ lastOp' = [op |-> "deleteDocument", filename |-> filename,
                     status |-> IF result.threw THEN 500 ELSE 200]
       /\ UNCHANGED <<runs, r2, vectorIndex, fnCall, fnResult>>

NextDocs ==
    \/ \E f \in DocFilenames, pages \in DocPages, ok \in BOOLEAN : DStoreDocument(f, pages, ok)
    \/ \E f \in DocFilenames, ok \in BOOLEAN : DGetDocument(f, ok)
    \/ \E f \in DocFilenames, ok \in BOOLEAN : DDeleteDocument(f, ok)

SpecDocs == InitDocs /\ [][NextDocs]_vars

RECURSIVE SumChunks(_, _)
\* the number of chunks of the pages in keys
SumChunks(pageChunks, keys) ==
    IF keys = {} THEN 0
    ELSE LET k == CHOOSE n \in keys : TRUE
         IN Len(pageChunks[k]) + SumChunks(pageChunks, keys \ {k})

\* C16: a ChunkedDocument made by processDocument, or returned by getDocument after a
\* storeDocument, has totalChunks equal to the sum of the lengths of its pageChunks
\* lists, and the keys of pageChunks are exactly 1..totalPages.
C16_ChunkedDocumentWellFormed ==
    (lastOp.op \in {"storeDocument", "getDocument"} /\ lastOp.document # NULL) =>
        LET document == lastOp.document
        IN /\ DOMAIN document.pageChunks = 1..document.totalPages
           /\ document.totalChunks = SumChunks(document.pageChunks, DOMAIN document.pageChunks)

\* a stored document of two pages and more chunks than pages has been read back
C16_Witness ==
    /\ lastOp.op = "getDocument"
    /\ lastOp.document # NULL
    /\ lastOp.document.totalPages = 2
    /\ lastOp.document.totalChunks > 2

RowsOf(filename) == {row \in docs : row.id = filename}

\* C19: the document store is an upsert-by-id map. After a successful storeDocument(d),
\* getDocument(d.id) returns the fullText and pageChunks of d and the id has a single
\* row; after a successful deleteDocument(f), getDocument(f) returns null; and what
\* getDocument(f) returns changes only by a storeDocument or deleteDocument for f, so
\* that a deleted document stays absent until the next storeDocument for it.
C19_DocumentStoreIsUpsertMap ==
    /\ [](lastOp.op = "storeDocument" /\ lastOp.status = 200 =>
            LET got == GetDocument(docs, lastOp.filename, TRUE)
            IN /\ got # NULL
               /\ got.fullText = lastOp.document.fullText
               /\ DOMAIN got.pageChunks = DOMAIN lastOp.document.pageChunks
               /\ \A n \in DOMAIN got.pageChunks :
                     got.pageChunks[n] = lastOp.document.pageChunks[n]
               /\ Cardinality(RowsOf(lastOp.filename)) = 1)
    /\ [](lastOp.op = "deleteDocument" /\ lastOp.status = 200 =>
            GetDocument(docs, lastOp.filename, TRUE) = NULL)
    /\ [][\A f \in DocFilenames :
            GetDocument(docs', f, TRUE) # GetDocument(docs, f, TRUE) =>
                /\ lastOp'.filename = f
                /\ lastOp'.status = 200
                /\ lastOp'.op = (IF GetDocument(docs', f, TRUE) = NULL
                                 THEN "deleteDocument" ELSE "storeDocument")]_vars

\* a document is stored over an earlier one with the same id and other content
C19_Witness ==
    /\ lastOp.op = "storeDocument"
    /\ lastOp.status = 200
    /\ lastOp.existed
    /\ lastOp.document.totalPages = 1
    /\ Cardinality(docs) = 2

----------------------------------------------------------------------------
(* processPdf call by call: one activation, every env.AI.run it issues to the      *)
(* embedding model and to the chat model, and every answer it awaits               *)

\* what the embedding backend may answer to one call
CallEmbedReplies ==
    {AiObject(Nested(Vec1), Absent, {}),
     AiThrow("InferenceUpstreamError", TRUE, {}),
     AiThrow("Error", TRUE, {})}

\* generateEmbedding after one backend answer: the vector is returned, the call is
\* repeated after the backoff delay, or the error is thrown to the caller
EmbedAttemptOutcome(reply, retryCount) ==
    LET attempt == IF reply.kind = "throw" THEN [threw |-> TRUE, error |-> reply.error]
                   ELSE DecodeEmbedding(reply)
    IN IF ~attempt.threw THEN "returned"
       ELSE IF ShouldRetry(attempt.error, retryCount) THEN "retry"
       ELSE "thrown"

AiCall(backend, purpose, page) == [backend |-> backend, purpose |-> purpose, page |-> page]

\* activation a issues a backend call / receives the answer to the call it awaits;
\* log is the sequence of these events
Issue(a, call) ==
    [a EXCEPT !.inFlight = @ \cup {call}, !.log = Append(@, [ev |-> "call", call |-> call])]

Settle(a) ==
    LET call == CHOOSE c \in a.inFlight : TRUE
    IN [a EXCEPT !.inFlight = @ \ {call}, !.log = Append(@, [ev |-> "return", call |-> call])]

CallsInputs ==
    {[fn |-> "processPdf", filename |-> <<"a">>, extracted |-> ExtractPdfText(outcome)] :
        outcome \in ExtractionOutcomes}

InitCalls ==
    /\ StoresIdle
    /\ fnCall \in CallsInputs
    /\ fnResult = NULL

\* processPdf up to the first await of generatePageEmbeddings
StartProcessPdf ==
    /\ fnCall.fn = "processPdf"
    /\ ~Called
    /\ fnResult' =
          [pc |-> "embedNext",
           entries |-> ObjectEntries(ProcessDocument(fnCall.filename,
                                                     fnCall.extracted.pages).pageChunks),
           entry |-> 1, retryCount |-> 0, pageNum |-> 0, purpose |-> "page",
           inFlight |-> {}, log |-> <<>>,
           embedded |-> {}, transcripts |-> {}, mcqs |-> {}]
    /\ UNCHANGED <<runs, r2, docs, vectorIndex, lastOp, fnCall>>

\* the page of the current entry of Object.entries(pageChunks)
EntryPage(a) == ParseInt(a.entries[a.entry][1])

\* a loop that starts the embedding of a page and goes on to the next page without
\* awaiting the answer
IssuePageEmbedding_NoAwait ==
    /\ Called
    /\ fnResult.pc = "embedNext"
    /\ fnResult.entry <= Len(fnResult.entries)
    /\ fnResult' = [Issue(fnResult, AiCall("embedding", "page", EntryPage(fnResult)))
                       EXCEPT !.entry = @ + 1]
    /\ UNCHANGED <<runs, r2, docs, vectorIndex, lastOp, fnCall>>

\* generatePageEmbeddings, loop body: await generateEmbedding(pageText, env), which
\* awaits env.AI.run(...)
IssuePageEmbedding ==
    /\ Called
    /\ fnResult.pc = "embedNext"
    /\ fnResult.entry <= Len(fnResult.entries)
    /\ fnResult' = [Issue(fnResult, AiCall("embedding", "page", EntryPage(fnResult)))
                       EXCEPT !.pc = "embedAwait"]
    /\ UNCHANGED <<runs, r2, docs, vectorIndex, lastOp, fnCall>>

\* the embedding backend answers the call of the current page
PageEmbeddingReturns(reply) ==
    /\ Called
    /\ fnResult.pc = "embedAwait"
    /\ LET outcome == EmbedAttemptOutcome(reply, fnResult.retryCount)
           page == EntryPage(fnResult)
           settled == Settle(fnResult)
       IN fnResult' =
             IF outcome = "returned"
             THEN [settled EXCEPT !.pc = "embedDelay", !.retryCount = 0,
                                  !.embedded = @ \cup {page}]
             ELSE IF outcome = "retry"
             THEN [settled EXCEPT !.pc = "embedBackoff", !.retryCount = @ + 1]
             ELSE [settled EXCEPT !.pc = "embedNext", !.retryCount = 0,
                                  !.entry = @ + 1, !.embedded = @ \cup {page}]
    /\ UNCHANGED <<runs, r2, docs, vectorIndex, lastOp, fnCall>>

\* the backoff delay of generateEmbedding has elapsed: the recursive call awaits
\* env.AI.run again
ReissueEmbedding ==
    /\ Called
    /\ fnResult.pc \in {"embedBackoff", "queryBackoff"}
    /\ fnResult' =
          IF fnResult.pc = "embedBackoff"
          THEN [Issue(fnResult, AiCall("embedding", "page", EntryPage(fnResult)))
                   EXCEPT !.pc = "embedAwait"]
          ELSE [Issue(fnResult, AiCall("embedding", fnResult.purpose, fnResult.pageNum))
                   EXCEPT !.pc = "queryAwait"]
    /\ UNCHANGED <<runs, r2, docs, vectorIndex, lastOp, fnCall>>

\* the delay between requests of generatePageEmbeddings has elapsed
PageDelayElapses ==
    /\ Called
    /\ fnResult.pc = "embedDelay"
    /\ fnResult' = [fnResult EXCEPT !.pc = "embedNext", !.entry = @ + 1]
    /\ UNCHANGED <<runs, r2, docs, vectorIndex, lastOp, fnCall>>

\* generatePageEmbeddings returns; storeDocument and upsertPageVectors are awaited
StoreStep(ok) ==
    /\ Called
    /\ fnResult.pc = "embedNext"
    /\ fnResult.entry > Len(fnResult.entries)
    /\ fnResult' = IF ok THEN [fnResult EXCEPT !.pc = "loopHead", !.pageNum = 1,
                                               !.purpose = "transcript"]
                   ELSE [fnResult EXCEPT !.pc = "failed"]
    /\ UNCHANGED <<runs, r2, docs, vectorIndex, lastOp, fnCall>>

\* the page loop: generateTranscriptWithRAG or generateMcqsWithRAG of the current
\* page starts with await ragService.generateEmbedding(queryPrompt, env)
IssueQueryEmbedding ==
    /\ Called
    /\ fnResult.pc = "loopHead"
    /\ fnResult.pageNum <= fnCall.extracted.numPages
    /\ fnResult' = [Issue(fnResult, AiCall("embedding", fnResult.purpose, fnResult.pageNum))
                       EXCEPT !.pc = "queryAwait"]
    /\ UNCHANGED <<runs, r2, docs, vectorIndex, lastOp, fnCall>>

\* the page text the fallback generator is called with is too short for generateMcqs
FallbackSkipsChat ==
    /\ fnResult.purpose = "mcq"
    /\ TextTooShort(fnCall.extracted.pages[fnResult.pageNum])

\* the generator of the current page has returned its value to the loop
AfterGenerator(a) ==
    IF a.purpose = "transcript"
    THEN [a EXCEPT !.pc = "loopHead", !.purpose = "mcq",
                   !.retryCount = 0, !.transcripts = @ \cup {a.pageNum}]
    ELSE [a EXCEPT !.pc = "loopHead", !.purpose = "transcript",
                   !.retryCount = 0, !.mcqs = @ \cup {a.pageNum}, !.pageNum = @ + 1]

\* the non-RAG generator is called: it awaits handleChatRequest, or returns the fixed
\* MCQs for a text that is too short
EnterFallback(a) ==
    IF FallbackSkipsChat THEN AfterGenerator(a)
    ELSE [Issue(a, AiCall("chat", a.purpose, a.pageNum))
             EXCEPT !.pc = "fallbackAwait", !.retryCount = 0]

\* the embedding backend answers the query embedding call: the generator goes on to
\* await handleChatRequest with the augmented prompt, retries, or falls back
QueryEmbeddingReturns(reply) ==
    /\ Called
    /\ fnResult.pc = "queryAwait"
    /\ LET outcome == EmbedAttemptOutcome(reply, fnResult.retryCount)
           settled == Settle(fnResult)
       IN fnResult' =
             IF outcome = "returned"
             THEN [Issue(settled, AiCall("chat", fnResult.purpose, fnResult.pageNum))
                      EXCEPT !.pc = "chatAwait", !.retryCount = 0]
             ELSE IF outcome = "retry"
             THEN [settled EXCEPT !.pc = "queryBackoff", !.retryCount = @ + 1]
             ELSE EnterFallback(settled)
    /\ UNCHANGED <<runs, r2, docs, vectorIndex, lastOp, fnCall>>

\* the chat backend answers the augmented call
ChatReturns(reply) ==
    /\ Called
    /\ fnResult.pc = "chatAwait"
    /\ LET response == HandleChatRequest(reply)
           usable == IF fnResult.purpose = "transcript" THEN HasResponseField(response)
                     ELSE ParseMcqResponse(response, fnResult.pageNum).found
       IN fnResult' = IF usable THEN AfterGenerator(Settle(fnResult))
                      ELSE EnterFallback(Settle(fnResult))
    /\ UNCHANGED <<runs, r2, docs, vectorIndex, lastOp, fnCall>>

\* the chat backend answers the call of generateTranscript / generateMcqs
FallbackChatReturns ==
    /\ Called
    /\ fnResult.pc = "fallbackAwait"
    /\ fnResult' = AfterGenerator(Settle(fnResult))
    /\ UNCHANGED <<runs, r2, docs, vectorIndex, lastOp, fnCall>>

\* the loop condition is false: storeTranscript and storeMcqs are awaited
WriteStep(ok) ==
    /\ Called
    /\ fnResult.pc = "loopHead"
    /\ ~(fnResult.pageNum <= fnCall.extracted.numPages)
    /\ fnResult' = [fnResult EXCEPT !.pc = IF ok THEN "done" ELSE "failed"]
    /\ UNCHANGED <<runs, r2, docs, vectorIndex, lastOp, fnCall>>

NextCalls ==
    \/ StartProcessPdf
    \/ IssuePageEmbedding
    \/ \E reply \in CallEmbedReplies : PageEmbeddingReturns(reply)
    \/ ReissueEmbedding
    \/ PageDelayElapses
    \/ \E ok \in BOOLEAN : StoreStep(ok)
    \/ IssueQueryEmbedding
    \/ \E reply \in CallEmbedReplies : QueryEmbeddingReturns(reply)
    \/ \E reply \in PipeChatReplies : ChatReturns(reply)
    \/ FallbackChatReturns
    \/ \E ok \in BOOLEAN : WriteStep(ok)

SpecCalls == InitCalls /\ [][NextCalls]_vars

\* C23: at every moment of a run at most one call to the embedding backend or to the
\* chat backend is in flight, and a call is issued only after the answer to the call
\* before it; the embedding call of a page starts after the calls of
\* the pages before it have ended, a call of the MCQ generation of page p starts after
\* the transcript generation of p has returned, and a call for page p of the page loop
\* starts after both generations of the pages before p have returned.
C23_PageProcessingSequential ==
    Called =>
        /\ Cardinality(fnResult.inFlight) <= 1
        /\ \A i \in 1..Len(fnResult.log) :
              /\ fnResult.log[i].ev = (IF i % 2 = 1 THEN "call" ELSE "return")
              /\ fnResult.log[i].ev = "return" => fnResult.log[i].call = fnResult.log[i - 1].call
        /\ \A c \in fnResult.inFlight :
              /\ c.purpose = "page" => \A q \in 1..(c.page - 1) : q \in fnResult.embedded
              /\ c.purpose = "mcq" => c.page \in fnResult.transcripts
              /\ c.purpose \in {"transcript", "mcq"} =>
                    \A q \in 1..(c.page - 1) :
                        q \in fnResult.transcripts /\ q \in fnResult.mcqs

\* the chat call of the MCQ generation of page 1 is in flight, after the embedding
\* loop went through two pages
C23_Witness ==
    /\ Called
    /\ fnResult.embedded = {1, 2}
    /\ fnResult.inFlight = {AiCall("chat", "mcq", 1)}
    /\ 1 \in fnResult.transcripts

====
